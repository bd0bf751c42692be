---------------------------- MODULE NostrConnect ----------------------------
(***************************************************************************)
(* The login with a signer on another device, over relays: a session asks  *)
(* for the signer's key, the server for a challenge, the signer for a      *)
(* signature and the server for a token, and its last result is what the   *)
(* dialog shows. A new session does not end the one before.                *)
(***************************************************************************)
CONSTANTS
    Sessions          \* bound: sessions of one page

VARIABLES
    session,          \* the clients
    current,          \* clientRef
    status

connectVars == <<session, current, status>>

NoSession == "none"
Fresh == [at |-> "new", secret |-> FALSE, paired |-> FALSE]

\* What a session can wait for: the signer's first event, its answers, the server's.
Asking == {"connect", "get_public_key", "sign_event"}
Awaiting == {"signer"} \cup Asking
Serving == {"challenge", "verify"}
OnTheWay == Awaiting \cup Serving \cup {"rejected"}

ConnectInit ==
    /\ session = [s \in Sessions |-> Fresh]
    /\ current = NoSession /\ status = "idle"

Moves(s, phase) == session' = [session EXCEPT ![s].at = phase]

\* The address of a bunker names the signer, and may hold a secret.
Start(s, bunker, secret) ==
    /\ session[s].at = "new" /\ (secret => bunker)
    /\ session' = [session EXCEPT ![s] = [at |-> "signer", secret |-> secret, paired |-> bunker]]
    /\ current' = s /\ status' = "waiting"

\* A bunker address that cannot be parsed: the client is there, but its run never begins.
StartFails(s) ==
    /\ session[s].at = "new"
    /\ Moves(s, "ended")
    /\ current' = s /\ status' = "error"

\* The first event that can be decrypted names the signer.
SignerAppears(s) ==
    /\ session[s].at = "signer" /\ ~session[s].paired
    /\ session' = [session EXCEPT ![s].paired = TRUE]
    /\ UNCHANGED <<current, status>>

Paired(s) ==
    /\ session[s].at = "signer" /\ session[s].paired
    /\ Moves(s, IF session[s].secret THEN "connect" ELSE "get_public_key")
    /\ UNCHANGED <<current, status>>

\* The answer with the id of the pending request; what comes later finds none.
Answer(s) ==
    /\ session[s].at \in Asking
    /\ Moves(s, CASE session[s].at = "connect" -> "get_public_key"
                  [] session[s].at = "get_public_key" -> "challenge"
                  [] session[s].at = "sign_event" -> "verify")
    /\ status' = IF session[s].at = "get_public_key" THEN "signing" ELSE status
    /\ UNCHANGED current

\* A closed session has no signer to wait for.
Challenged(s) ==
    /\ session[s].at = "challenge"
    /\ Moves(s, IF session[s].paired THEN "sign_event" ELSE "rejected")
    /\ UNCHANGED <<current, status>>

Verified(s) ==
    /\ session[s].at = "verify"
    /\ Moves(s, "ended")
    /\ status' = "done"
    /\ UNCHANGED current

\* The signer's refusal, the timer of the request or of the wait, a request that no relay
\* takes, a malformed answer, the server's refusal, or the rejection of a closed session.
SessionFails(s) ==
    /\ session[s].at \in OnTheWay
    /\ Moves(s, "ended")
    /\ status' = "error"
    /\ UNCHANGED current

\* What cleanup rejects: the wait for the signer and the pending requests, whose timers go.
Rejected(phase) == IF phase \in Awaiting THEN "rejected" ELSE phase

\* (mutant) The pending requests are dropped with their timers.
CleanupDrops(s) ==
    IF s = NoSession THEN session
    ELSE [session EXCEPT ![s].paired = FALSE,
                         ![s].at = IF @ \in Asking THEN "dropped" ELSE Rejected(@)]

Cleanup(s) ==
    IF s = NoSession THEN session
    ELSE [session EXCEPT ![s].paired = FALSE, ![s].at = Rejected(@)]

\* The way back, and the end of the dialog when somebody is signed in.
Cancel ==
    /\ session' = Cleanup(current)
    /\ current' = NoSession /\ status' = "idle"

Reset ==
    /\ status' = "idle"
    /\ UNCHANGED <<session, current>>

Advance(s) ==
    \/ SignerAppears(s) \/ Paired(s) \/ Answer(s)
    \/ Challenged(s) \/ Verified(s) \/ SessionFails(s)

ConnectNext ==
    \/ \E s \in Sessions :
          \/ \E bunker, secret \in BOOLEAN : Start(s, bunker, secret)
          \/ StartFails(s) \/ Advance(s)
    \/ Cancel \/ Reset

(***************************************************************************)
(* Properties                                                              *)
(***************************************************************************)

\* Every session comes to an end, also one that is cancelled or left behind by another.
SessionsEnd ==
    \A s \in Sessions : session[s].at \notin {"new", "ended"} ~> session[s].at = "ended"

ConnectTypeOK ==
    /\ \A s \in Sessions :
          /\ session[s].at \in {"new", "ended"} \cup OnTheWay
          /\ {session[s].secret, session[s].paired} \subseteq BOOLEAN
    /\ current \in Sessions \cup {NoSession}
    /\ status \in {"idle", "waiting", "signing", "done", "error"}
=============================================================================

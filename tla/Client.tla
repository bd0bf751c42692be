------------------------------- MODULE Client ------------------------------
(***************************************************************************)
(* The web client: what a page keeps while answers of relays, of a signer  *)
(* and of the server are on their way.  The parts share no variables, so a *)
(* behaviour exercises one of them, its `part`; the others stay as they    *)
(* start.                                                                  *)
(***************************************************************************)
EXTENDS Feed, Lists, ProfileCache, SignIn, NostrConnect, Onboarding, Zaps

VARIABLE part

clientVars ==
    <<part, feedVars, listVars, profileVars, signInVars, connectVars, wizardVars,
      zapVars>>

Parts == {"feed", "lists", "profiles", "sign-in", "connect", "wizard", "zaps"}

\* The four lists are one module, and only the behaviours about lists choose among them.
Init ==
    /\ part \in Parts
    /\ FeedInit /\ ListsInit /\ ProfileInit /\ SignInInit /\ ConnectInit /\ WizardInit
    /\ ZapsInit
    /\ part # "lists" => list = "follows"

Next ==
    \/ /\ part = "feed" /\ FeedNext
       /\ UNCHANGED <<part, listVars, profileVars, signInVars, connectVars, wizardVars, zapVars>>
    \/ /\ part = "lists" /\ ListsNext
       /\ UNCHANGED <<part, feedVars, profileVars, signInVars, connectVars, wizardVars, zapVars>>
    \/ /\ part = "profiles" /\ ProfileNext
       /\ UNCHANGED <<part, feedVars, listVars, signInVars, connectVars, wizardVars, zapVars>>
    \/ /\ part = "sign-in" /\ SignInNext
       /\ UNCHANGED <<part, feedVars, listVars, profileVars, connectVars, wizardVars, zapVars>>
    \/ /\ part = "connect" /\ ConnectNext
       /\ UNCHANGED <<part, feedVars, listVars, profileVars, signInVars, wizardVars, zapVars>>
    \/ /\ part = "wizard" /\ WizardNext
       /\ UNCHANGED <<part, feedVars, listVars, profileVars, signInVars, connectVars, zapVars>>
    \/ /\ part = "zaps" /\ ZapsNext
       /\ UNCHANGED <<part, feedVars, listVars, profileVars, signInVars, connectVars, wizardVars>>

Spec == Init /\ [][Next]_clientVars

\* Timers run off, and the browser gives up requests that are not answered.
FairSpec == Spec /\ \A s \in Sessions : WF_connectVars(part = "connect" /\ Advance(s))

(***************************************************************************)
(* Properties                                                              *)
(***************************************************************************)

\* The stores, the copies and the dialogs of every part hold what they may.
TypeOK ==
    /\ FeedTypeOK /\ ListsTypeOK /\ ProfileTypeOK /\ SignInTypeOK
    /\ ConnectTypeOK /\ WizardTypeOK /\ ZapsTypeOK
=============================================================================

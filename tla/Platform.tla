------------------------------ MODULE Platform -----------------------------
(***************************************************************************)
(* The services beside auctions and billing, of one process and one clock. *)
(* They share no rows, so a behaviour exercises one of them, its `focus`;  *)
(* the others stay as they start.                                          *)
(***************************************************************************)
EXTENDS Auth, ApiKeys, RelaySync, RateLimiter, UserSync, RelayDiscovery,
        Verification

CONSTANTS
    Focuses,          \* the questions of a run
    Horizon,          \* bound: per focus, when its behaviours end
    KeyEnds           \* when an API key may expire

ASSUME PlatformAssumption == KeyEnds \subseteq Nat

VARIABLE focus

platformVars ==
    <<now, focus, authVars, keyVars, syncVars, limiterVars, userSyncVars, registryVars,
      verificationVars>>

\* The kinds of login and request that meet in a behaviour.
AsksOf ==
    [challenges |-> {"challenge", "token", "revoke"}, wallets |-> {"lnurl", "challenge"},
     events |-> {"event"}]

Init ==
    /\ now = 0 /\ focus \in Focuses
    /\ AuthInit /\ KeysInit /\ SyncInit /\ LimiterInit
    /\ UserSyncInit /\ RegistryInit /\ VerificationInit

Next ==
  /\ \/ /\ focus \in DOMAIN AsksOf
        /\ AuthNext(AsksOf[focus])
        /\ UNCHANGED <<focus, keyVars, syncVars, limiterVars, userSyncVars, registryVars,
                     verificationVars>>
     \/ /\ focus = "keys"
        /\ KeysNext(KeyEnds)
        /\ UNCHANGED <<focus, authVars, syncVars, limiterVars, userSyncVars, registryVars,
                     verificationVars>>
     \/ /\ focus = "queue"
        /\ SyncNext
        /\ UNCHANGED <<now, focus, authVars, keyVars, limiterVars, userSyncVars, registryVars,
                     verificationVars>>
     \/ /\ focus = "window"
        /\ LimiterNext
        /\ UNCHANGED <<focus, authVars, keyVars, syncVars, userSyncVars, registryVars,
                     verificationVars>>
     \/ /\ focus = "notes"
        /\ UserSyncNext
        /\ UNCHANGED <<focus, authVars, keyVars, syncVars, limiterVars, registryVars,
                     verificationVars>>
     \/ /\ focus = "registry"
        /\ RegistryNext
        /\ UNCHANGED <<now, focus, authVars, keyVars, syncVars, limiterVars, userSyncVars,
                     verificationVars>>
     \/ /\ focus = "checks"
        /\ VerificationNext
        /\ UNCHANGED <<focus, authVars, keyVars, syncVars, limiterVars, userSyncVars,
                     registryVars>>
  /\ now' <= Horizon[focus]

Spec == Init /\ [][Next]_platformVars

\* What the code's scheduling gives: handlers go on; the process is started again, and
\* its loop goes on; and a client goes on polling.  Requests is a bound, the server takes
\* any number of them, so that a poll is not kept out for ever.
HandlerRuns(r) == focus \in DOMAIN AsksOf /\ Handles(r) /\ UNCHANGED now

Polls(k1) ==
    /\ focus = "wallets" /\ UNCHANGED now
    /\ \E r \in Requests : PollLnurlAuth(r, k1) /\ Remember(r)

LoopRuns == focus = "queue" /\ LoopStep

Restarts == focus = "queue" /\ Boot

FairSpec ==
    /\ Spec
    /\ \A r \in Requests : WF_<<now, authVars>>(HandlerRuns(r))
    /\ \A k1 \in K1s : SF_<<now, authVars>>(Polls(k1))
    /\ WF_syncVars(LoopRuns) /\ WF_syncVars(Restarts)

(***************************************************************************)
(* Properties                                                              *)
(***************************************************************************)

\* The rows, the cache, the flags and the windows of every service hold what they may.
TypeOK ==
    /\ AuthTypeOK /\ KeysTypeOK /\ SyncTypeOK /\ LimiterTypeOK
    /\ UserSyncTypeOK /\ RegistryTypeOK /\ VerificationTypeOK
=============================================================================

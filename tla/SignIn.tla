------------------------------- MODULE SignIn -------------------------------
(***************************************************************************)
(* Who is signed in, as the page knows it: the token in the local storage, *)
(* the user on the screen, and the key that an nsec login leaves in the    *)
(* session's storage.  Requests carry the token of their start, and their  *)
(* answers take effect whenever they come.                                 *)
(***************************************************************************)
EXTENDS Naturals

CONSTANTS
    Persons,
    Requests          \* bound: requests under way

VARIABLES
    token,            \* nostrmaxi_token, as the person that it belongs to
    user, isAuthenticated,
    nsec,             \* nostrmaxi_nsec_hex, as the person whose key it is
    requests,
    overlapped,       \* history: requests overlapped since the page was loaded
    leftIn,           \* history: the request of the last logout failed
    keyLeft           \* history: a key may be of an earlier login

signInVars == <<token, user, isAuthenticated, nsec, requests, overlapped, leftIn, keyLeft>>

Nobody == "nobody"

ASSUME SignInAssumption == Nobody \notin Persons

NoRequest == [op |-> "none"]
Methods == {"extension", "nsec", "connect", "lnurl"}

SignInInit ==
    /\ token = Nobody /\ user = Nobody /\ isAuthenticated = FALSE /\ nsec = Nobody
    /\ requests = [r \in Requests |-> NoRequest]
    /\ overlapped = FALSE /\ leftIn = FALSE /\ keyLeft = FALSE

Quiet == \A r \in Requests : requests[r] = NoRequest

Send(r, request) ==
    /\ requests[r] = NoRequest
    /\ requests' = [requests EXCEPT ![r] = request]
    /\ overlapped' = (overlapped \/ ~Quiet)
    /\ keyLeft' = (keyLeft \/ ~Quiet)

Settle(r) ==
    /\ requests' = [requests EXCEPT ![r] = NoRequest]
    /\ UNCHANGED overlapped

\* A new page: what is under way is dropped and what is stored stays; initialize asks
\* whose the token is.
LoadPage(r) ==
    /\ user' = Nobody /\ isAuthenticated' = FALSE
    /\ requests' = [q \in Requests |->
                       IF q = r /\ token # Nobody THEN [op |-> "initialize", token |-> token]
                       ELSE NoRequest]
    /\ overlapped' = FALSE /\ leftIn' = FALSE
    /\ UNCHANGED <<token, nsec, keyLeft>>

InitializeOk(r) ==
    /\ requests[r].op = "initialize"
    /\ user' = requests[r].token /\ isAuthenticated' = TRUE
    /\ Settle(r)
    /\ UNCHANGED <<token, nsec, leftIn, keyLeft>>

\* The token is given up, the key of the session is not.
InitializeFails(r) ==
    /\ requests[r].op = "initialize"
    /\ token' = Nobody /\ isAuthenticated' = FALSE
    /\ keyLeft' = (keyLeft \/ nsec # Nobody)
    /\ Settle(r)
    /\ UNCHANGED <<user, nsec, leftIn>>

\* loginWithExtension, loginWithNsec, loginWithNostrConnect up to the verification, and a
\* poll of an LNURL login; the dialog is there as long as nobody is signed in.
LoginWith(r, method, person) ==
    /\ ~isAuthenticated
    /\ Send(r, [op |-> "login", method |-> method, person |-> person])
    /\ UNCHANGED <<token, user, isAuthenticated, nsec, leftIn>>

\* A login with a key keeps it, one with a signer removes it, one by LNURL does neither.
LoginOk(r) ==
    LET person == requests[r].person
        method == requests[r].method
    IN /\ requests[r].op = "login"
       /\ token' = person /\ user' = person /\ isAuthenticated' = TRUE
       /\ nsec' = CASE method = "nsec" -> person [] method = "lnurl" -> nsec [] OTHER -> Nobody
       /\ keyLeft' = (keyLeft /\ (method = "lnurl" \/ overlapped))
       /\ leftIn' = FALSE
       /\ Settle(r)

LoginFails(r) ==
    /\ requests[r].op = "login"
    /\ Settle(r)
    /\ UNCHANGED <<token, user, isAuthenticated, nsec, leftIn, keyLeft>>

Logout(r) ==
    /\ isAuthenticated
    /\ Send(r, [op |-> "logout"])
    /\ UNCHANGED <<token, user, isAuthenticated, nsec, leftIn>>

\* The token goes when the server has answered; if it does not, everything else goes.
LogoutEnds(r, answered) ==
    /\ requests[r].op = "logout"
    /\ token' = IF answered THEN Nobody ELSE token
    /\ user' = Nobody /\ isAuthenticated' = FALSE /\ nsec' = Nobody
    /\ leftIn' = ~answered
    /\ keyLeft' = (keyLeft /\ overlapped)
    /\ Settle(r)

\* After a payment, and when the page wants to know more about the user.
RefreshUser(r) ==
    /\ isAuthenticated
    /\ Send(r, [op |-> "refresh", token |-> token])
    /\ UNCHANGED <<token, user, isAuthenticated, nsec, leftIn>>

RefreshOk(r) ==
    /\ requests[r].op = "refresh" /\ requests[r].token # Nobody
    /\ user' = requests[r].token
    /\ Settle(r)
    /\ UNCHANGED <<token, isAuthenticated, nsec, leftIn, keyLeft>>

\* (mutant) The token survives the failure.
RefreshForgets(r) ==
    /\ requests[r].op = "refresh"
    /\ user' = Nobody /\ isAuthenticated' = FALSE /\ nsec' = Nobody
    /\ keyLeft' = (keyLeft /\ overlapped)
    /\ Settle(r)
    /\ UNCHANGED <<token, leftIn>>

\* Any failure counts as an expired token.
RefreshFails(r) ==
    /\ requests[r].op = "refresh"
    /\ user' = Nobody /\ isAuthenticated' = FALSE /\ token' = Nobody /\ nsec' = Nobody
    /\ keyLeft' = (keyLeft /\ overlapped)
    /\ Settle(r)
    /\ UNCHANGED leftIn

SignInNext ==
    \E r \in Requests :
       \/ LoadPage(r) \/ InitializeOk(r) \/ InitializeFails(r)
       \/ \E method \in Methods, person \in Persons : LoginWith(r, method, person)
       \/ LoginOk(r) \/ LoginFails(r)
       \/ Logout(r) \/ \E answered \in BOOLEAN : LogoutEnds(r, answered)
       \/ RefreshUser(r) \/ RefreshOk(r) \/ RefreshFails(r)

(***************************************************************************)
(* Properties                                                              *)
(***************************************************************************)

\* Between requests, if they did not overlap since the page was loaded, the page shows
\* somebody exactly when it holds a token (unless the last logout never reached the
\* server), it shows the token's owner, and it signs with nobody else's key (unless a key
\* was left behind by a login that lapsed).
ShownIsSignedIn ==
    Quiet /\ ~overlapped =>
       /\ leftIn \/ (isAuthenticated <=> token # Nobody)
       /\ isAuthenticated => user = token
       /\ isAuthenticated /\ ~keyLeft => nsec \in {Nobody, user}

SignInTypeOK ==
    /\ {token, user, nsec} \subseteq Persons \cup {Nobody}
    /\ {isAuthenticated, overlapped, leftIn, keyLeft} \subseteq BOOLEAN
    /\ \A r \in Requests : requests[r].op \in {"none", "initialize", "login", "logout", "refresh"}
=============================================================================

---------------------------- MODULE TokenRefresh ----------------------------
(***************************************************************************)
(* The access token of the Anypoint client: obtained at login, renewed in  *)
(* the background at three quarters of its lifetime, and replaced together *)
(* with its background goroutine when the configuration changes            *)
(* (pkg/anypoint/authentication.go and OnConfigChange in client.go).       *)
(*                                                                         *)
(* Every login makes a new auth object with a goroutine, a timer and a     *)
(* stop channel of its own; the goroutine does not return when stopped, so *)
(* all of them stay and the model keeps them all, newest last.             *)
(*                                                                         *)
(* Time is counted in units of which RetryDelay make 10 seconds.  A unit   *)
(* passes only when no timer is due and no request is under way: remote    *)
(* calls and goroutine switches are short against a unit.                  *)
(***************************************************************************)
EXTENDS Integers, Sequences

CONSTANTS Lifetimes,    \* token lifetimes the server may answer, 0 included if it may
          RetryDelay,   \* the wait after a failed refresh
          MaxChanges,   \* configuration changes
          MaxErrors     \* failed requests for a token

ASSUME TokenAssumption ==
    /\ Lifetimes \subseteq Nat
    /\ RetryDelay \in Nat \ {0}
    /\ {MaxChanges, MaxErrors} \subseteq Nat

Off == -1               \* a timer that has fired or was stopped

VARIABLES
    auths,      \* every auth object made: its goroutine's loop and timer
    token,      \* the token of the newest auth: its age and lifetime
    change,     \* client.OnConfigChange: idle, stop, login or fatal
    errors

tokenVars == <<auths, token, change, errors>>

(* Mutant of Interval: a refresh a fixed time before the token expires.    *)
IntervalBefore(lifetime) == lifetime - 20 * RetryDelay

(* Refresh at 75% of the lifetime, rounded down.                           *)
Interval(lifetime) == (3 * lifetime) \div 4

(* startRefreshToken: no goroutine for a token without a lifetime.         *)
Started(lifetime) ==
    IF lifetime > 0 THEN [loop |-> "select", timer |-> Interval(lifetime)]
    ELSE [loop |-> "none", timer |-> Off]

Newest == Len(auths)
Alive == change # "fatal"

(* The agent logs in once before anything else runs.                       *)
TokenInit == \E lifetime \in Lifetimes :
                /\ auths = <<Started(lifetime)>>
                /\ token = [age |-> 0, life |-> lifetime]
                /\ change = "idle"
                /\ errors = 0

(* The timer fires and the goroutine asks for a token.                     *)
Fire(i) ==
    /\ Alive
    /\ auths[i].loop = "select" /\ auths[i].timer = 0
    /\ auths' = [auths EXCEPT ![i] = [loop |-> "fetch", timer |-> Off]]
    /\ UNCHANGED <<token, change, errors>>

(* A new token; without a lifetime the timer is not set again.             *)
Refreshed(i) ==
    /\ Alive
    /\ auths[i].loop = "fetch"
    /\ \E lifetime \in Lifetimes :
         /\ auths' = [auths EXCEPT ![i] = [loop |-> "select",
                                           timer |-> IF lifetime > 0 THEN Interval(lifetime)
                                                     ELSE Off]]
         /\ token' = IF i = Newest THEN [age |-> 0, life |-> lifetime] ELSE token
    /\ UNCHANGED <<change, errors>>

(* Mutants of RefreshFails: the timer is not set again, or the goroutine   *)
(* returns.                                                                *)
RefreshNotRetried(i) ==
    /\ Alive
    /\ auths[i].loop = "fetch"
    /\ errors < MaxErrors
    /\ errors' = errors + 1
    /\ auths' = [auths EXCEPT ![i] = [loop |-> "select", timer |-> Off]]
    /\ UNCHANGED <<token, change>>

RefreshGivesUp(i) ==
    /\ Alive
    /\ auths[i].loop = "fetch"
    /\ errors < MaxErrors
    /\ errors' = errors + 1
    /\ auths' = [auths EXCEPT ![i] = [loop |-> "none", timer |-> Off]]
    /\ UNCHANGED <<token, change>>

RefreshFails(i) ==
    /\ Alive
    /\ auths[i].loop = "fetch"
    /\ errors < MaxErrors
    /\ errors' = errors + 1
    /\ auths' = [auths EXCEPT ![i] = [loop |-> "select", timer |-> RetryDelay]]
    /\ UNCHANGED <<token, change>>

(* client.OnConfigChange begins.                                           *)
BeginChange ==
    /\ change = "idle"
    /\ Len(auths) <= MaxChanges
    /\ change' = "stop"
    /\ UNCHANGED <<auths, token, errors>>

(* Mutant of StopAuth: the timer is left running.                          *)
StopAuthTimerRuns ==
    /\ change = "stop"
    /\ auths[Newest].loop = "select"
    /\ change' = "login"
    /\ UNCHANGED <<auths, token, errors>>

(* auth.Stop: the send meets the goroutine in its select, which stops the  *)
(* timer and goes round the loop again.                                    *)
StopAuth ==
    /\ change = "stop"
    /\ auths[Newest].loop = "select"
    /\ auths' = [auths EXCEPT ![Newest].timer = Off]
    /\ change' = "login"
    /\ UNCHANGED <<token, errors>>

(* NewAuth with the new credentials.                                       *)
Login ==
    /\ change = "login"
    /\ \E lifetime \in Lifetimes :
         /\ auths' = Append(auths, Started(lifetime))
         /\ token' = [age |-> 0, life |-> lifetime]
    /\ change' = "idle"
    /\ UNCHANGED errors

(* An error ends the process (logrus.Fatalf), as does an environment that  *)
(* is not found.                                                           *)
LoginFails ==
    /\ change = "login"
    /\ errors < MaxErrors
    /\ errors' = errors + 1
    /\ change' = "fatal"
    /\ UNCHANGED <<auths, token>>

(* A unit of time.  The age is of no interest once the token has expired.  *)
Due(a) == a.timer = 0 \/ a.loop = "fetch"
Elapse ==
    /\ Alive /\ change # "login"
    /\ \A i \in DOMAIN auths : ~Due(auths[i])
    /\ auths' = [i \in DOMAIN auths |->
                    [auths[i] EXCEPT !.timer = IF @ > 0 THEN @ - 1 ELSE @]]
    /\ token' = [token EXCEPT !.age = IF @ < token.life THEN @ + 1 ELSE @]
    /\ UNCHANGED <<change, errors>>

Refresher == \E i \in DOMAIN auths : Fire(i) \/ Refreshed(i) \/ RefreshFails(i)

TokenNext == Refresher \/ BeginChange \/ StopAuth \/ Login \/ LoginFails \/ Elapse

TokenSpec == TokenInit /\ [][TokenNext]_tokenVars
-----------------------------------------------------------------------------
(* Type invariant of the token refresh.                                    *)
TokenTypeOK ==
    /\ auths \in Seq([loop : {"none", "select", "fetch"}, timer : Nat \cup {Off}])
    /\ auths # <<>>
    /\ token \in [age : Nat, life : Nat]
    /\ change \in {"idle", "stop", "login", "fatal"}
    /\ errors \in 0..MaxErrors

(* The goroutines of former configurations never ask for a token again,    *)
(* although they never return: only the newest auth has a running timer or *)
(* a request under way, and none has while a login is pending.             *)
OneRefresher ==
    \A i \in DOMAIN auths :
        auths[i].timer # Off \/ auths[i].loop = "fetch" =>
            i = Newest /\ change # "login"

(* No request is made with an expired token as long as the retries fit in  *)
(* the quarter of the lifetime that is left when the first refresh is due. *)
TokenFresh == Alive /\ change # "login" => token.age < token.life

(* A configuration change gets past auth.Stop and ends, in a login or in   *)
(* the end of the process.                                                 *)
ChangeEnds == change = "stop" ~> change \in {"idle", "fatal"}
=============================================================================

------------------------- MODULE TokenRefreshProofs -------------------------
(***************************************************************************)
(* Theorems about TokenRefresh, for any lifetimes, retry delay and number  *)
(* of configuration changes and errors.                                    *)
(***************************************************************************)
EXTENDS TokenRefresh, TLAPS

AuthState == [loop : {"none", "select", "fetch"}, timer : Nat \cup {Off}]

LEMMA StartedType ==
    ASSUME NEW lifetime \in Nat
    PROVE  /\ Interval(lifetime) \in Nat
           /\ Interval(lifetime) <= lifetime
           /\ Started(lifetime) \in AuthState
<1>1. Interval(lifetime) \in Nat /\ Interval(lifetime) <= lifetime
  BY DEF Interval
<1> HIDE DEF Interval
<1> QED BY <1>1 DEF Started, AuthState

LEMMA TokenTypeStep == TokenTypeOK /\ [TokenNext]_tokenVars => TokenTypeOK'
<1> SUFFICES ASSUME TokenTypeOK, [TokenNext]_tokenVars PROVE TokenTypeOK'
  OBVIOUS
<1> USE TokenAssumption
<1>0. auths \in Seq(AuthState) /\ auths # <<>> /\ Newest \in Nat /\ Newest \in DOMAIN auths
  BY DEF TokenTypeOK, AuthState, Newest
<1>1. ASSUME NEW i \in DOMAIN auths, NEW a \in AuthState, auths' = [auths EXCEPT ![i] = a]
      PROVE  auths' \in Seq(AuthState) /\ auths' # <<>>
  BY <1>0, <1>1
<1>2. ASSUME NEW i \in DOMAIN auths, Fire(i) PROVE TokenTypeOK'
  <2>1. [loop |-> "fetch", timer |-> Off] \in AuthState
    BY DEF AuthState
  <2>2. auths' \in Seq(AuthState) /\ auths' # <<>>
    BY <1>1, <1>2, <2>1 DEF Fire
  <2> QED BY <1>2, <2>2 DEF Fire, TokenTypeOK, AuthState
<1>3. ASSUME NEW i \in DOMAIN auths, Refreshed(i) PROVE TokenTypeOK'
  <2>1. PICK lifetime \in Lifetimes :
          /\ auths' = [auths EXCEPT ![i] = [loop |-> "select",
                                            timer |-> IF lifetime > 0 THEN Interval(lifetime)
                                                      ELSE Off]]
          /\ token' = IF i = Newest THEN [age |-> 0, life |-> lifetime] ELSE token
    BY <1>3 DEF Refreshed
  <2>2. [loop |-> "select", timer |-> IF lifetime > 0 THEN Interval(lifetime) ELSE Off]
          \in AuthState
    BY StartedType DEF AuthState
  <2>3. auths' \in Seq(AuthState) /\ auths' # <<>>
    BY <1>1, <2>1, <2>2
  <2>4. token' \in [age : Nat, life : Nat]
    BY <2>1 DEF TokenTypeOK
  <2> QED BY <1>3, <2>3, <2>4 DEF Refreshed, TokenTypeOK, AuthState
<1>4. ASSUME NEW i \in DOMAIN auths, RefreshFails(i) PROVE TokenTypeOK'
  <2>1. [loop |-> "select", timer |-> RetryDelay] \in AuthState
    BY DEF AuthState
  <2>2. auths' \in Seq(AuthState) /\ auths' # <<>>
    BY <1>1, <1>4, <2>1 DEF RefreshFails
  <2>3. errors' \in 0..MaxErrors
    BY <1>4 DEF RefreshFails, TokenTypeOK
  <2> QED BY <1>4, <2>2, <2>3 DEF RefreshFails, TokenTypeOK, AuthState
<1>5. CASE BeginChange
  BY <1>5 DEF BeginChange, TokenTypeOK
<1>6. CASE StopAuth
  <2>1. [auths[Newest] EXCEPT !.timer = Off] \in AuthState
    <3>1. auths[Newest] \in AuthState
      BY <1>0
    <3> QED BY <3>1 DEF AuthState
  <2>2. auths' = [auths EXCEPT ![Newest] = [auths[Newest] EXCEPT !.timer = Off]]
    BY <1>6 DEF StopAuth
  <2>3. auths' \in Seq(AuthState) /\ auths' # <<>>
    BY <1>0, <1>1, <2>1, <2>2
  <2> QED BY <1>6, <2>3 DEF StopAuth, TokenTypeOK, AuthState
<1>7. CASE Login
  <2>1. PICK lifetime \in Lifetimes : /\ auths' = Append(auths, Started(lifetime))
                                      /\ token' = [age |-> 0, life |-> lifetime]
    BY <1>7 DEF Login
  <2>2. Started(lifetime) \in AuthState
    BY StartedType
  <2>3. auths' \in Seq(AuthState) /\ auths' # <<>>
    BY <1>0, <2>1, <2>2
  <2> QED BY <1>7, <2>1, <2>3 DEF Login, TokenTypeOK, AuthState
<1>8. CASE LoginFails
  BY <1>8 DEF LoginFails, TokenTypeOK
<1>9. CASE Elapse
  <2>1. ASSUME NEW i \in DOMAIN auths
        PROVE  [auths[i] EXCEPT !.timer = IF @ > 0 THEN @ - 1 ELSE @] \in AuthState
    <3>1. auths[i] \in AuthState
      BY <1>0
    <3> QED BY <3>1 DEF AuthState, Off
  <2>2. auths' \in [DOMAIN auths -> AuthState]
    BY <1>9, <2>1 DEF Elapse
  <2>3. auths' \in Seq(AuthState) /\ auths' # <<>>
    <3>1. DOMAIN auths = 1..Newest /\ Newest > 0
      BY <1>0 DEF Newest
    <3> QED BY <1>0, <2>2, <3>1
  <2>4. token' \in [age : Nat, life : Nat]
    BY <1>9 DEF Elapse, TokenTypeOK
  <2> QED BY <1>9, <2>3, <2>4 DEF Elapse, TokenTypeOK, AuthState
<1>10. CASE UNCHANGED tokenVars
  BY <1>10 DEF tokenVars, TokenTypeOK
<1> QED BY <1>2, <1>3, <1>4, <1>5, <1>6, <1>7, <1>8, <1>9, <1>10 DEF TokenNext, Refresher

LEMMA TokenTypeInit == TokenInit => TokenTypeOK
<1> SUFFICES ASSUME TokenInit PROVE TokenTypeOK
  OBVIOUS
<1>1. PICK lifetime \in Lifetimes : /\ auths = <<Started(lifetime)>>
                                    /\ token = [age |-> 0, life |-> lifetime]
  BY DEF TokenInit
<1>2. lifetime \in Nat /\ MaxErrors \in Nat
  BY TokenAssumption
<1>3. Started(lifetime) \in AuthState
  BY <1>2, StartedType
<1> QED BY <1>1, <1>2, <1>3 DEF TokenInit, TokenTypeOK, AuthState

(* Type correctness of every reachable state.                              *)
THEOREM TokenTypeCorrect == TokenSpec => []TokenTypeOK
BY TokenTypeInit, TokenTypeStep, PTL DEF TokenSpec
-----------------------------------------------------------------------------
(* An older goroutine was stopped before the newest auth was made, and     *)
(* nothing ever sets its timer again.                                      *)
LEMMA OneRefresherStep ==
    TokenTypeOK /\ OneRefresher /\ [TokenNext]_tokenVars => OneRefresher'
<1> SUFFICES ASSUME TokenTypeOK, OneRefresher, [TokenNext]_tokenVars PROVE OneRefresher'
  OBVIOUS
<1> USE TokenAssumption
<1> DEFINE Active(a) == a.timer # Off \/ a.loop = "fetch"
<1>0. auths \in Seq(AuthState) /\ Newest \in Nat /\ Newest \in DOMAIN auths
  BY DEF TokenTypeOK, AuthState, Newest
(* A step of goroutine i, which is active, and which therefore is newest.  *)
<1>1. ASSUME NEW i \in DOMAIN auths, Active(auths[i]), NEW a, UNCHANGED change,
             auths' = [auths EXCEPT ![i] = a]
      PROVE  OneRefresher'
  <2>1. i = Newest /\ change # "login"
    BY <1>1 DEF OneRefresher
  <2>2. Newest' = Newest /\ DOMAIN auths' = DOMAIN auths
    BY <1>0, <1>1 DEF Newest
  <2>3. \A j \in DOMAIN auths : j # i => auths'[j] = auths[j]
    BY <1>1
  <2> QED BY <1>1, <2>1, <2>2, <2>3 DEF OneRefresher
<1>2. ASSUME NEW i \in DOMAIN auths, Fire(i) PROVE OneRefresher'
  <2>1. Active(auths[i]) /\ UNCHANGED change
    BY <1>2 DEF Fire, Off
  <2> QED BY <1>1, <1>2, <2>1 DEF Fire
<1>3. ASSUME NEW i \in DOMAIN auths, Refreshed(i) PROVE OneRefresher'
  <2>1. Active(auths[i]) /\ UNCHANGED change
    BY <1>3 DEF Refreshed
  <2>2. PICK a : auths' = [auths EXCEPT ![i] = a]
    BY <1>3 DEF Refreshed
  <2> QED BY <1>1, <2>1, <2>2
<1>4. ASSUME NEW i \in DOMAIN auths, RefreshFails(i) PROVE OneRefresher'
  <2>1. Active(auths[i]) /\ UNCHANGED change
    BY <1>4 DEF RefreshFails
  <2> QED BY <1>1, <1>4, <2>1 DEF RefreshFails
<1>5. CASE BeginChange
  BY <1>5 DEF BeginChange, OneRefresher, Newest
<1>6. CASE StopAuth
  <2>1. auths'[Newest].timer = Off /\ auths'[Newest].loop = "select"
    <3>1. auths[Newest] \in AuthState
      BY <1>0
    <3> QED BY <1>0, <1>6, <3>1 DEF StopAuth, AuthState
  <2>2. Newest' = Newest /\ DOMAIN auths' = DOMAIN auths
    BY <1>0, <1>6 DEF Newest, StopAuth
  <2>3. \A j \in DOMAIN auths : j # Newest => auths'[j] = auths[j]
    BY <1>6 DEF StopAuth
  <2> QED BY <2>1, <2>2, <2>3 DEF OneRefresher
<1>7. CASE Login
  <2>1. PICK a : auths' = Append(auths, a)
    BY <1>7 DEF Login
  <2>2. Newest' = Newest + 1 /\ \A j \in DOMAIN auths' : j = Newest' \/ (j \in DOMAIN auths /\ auths'[j] = auths[j])
    BY <1>0, <2>1 DEF Newest
  <2>3. change = "login" /\ change' = "idle"
    BY <1>7 DEF Login
  <2> QED BY <2>2, <2>3 DEF OneRefresher
<1>8. CASE LoginFails
  BY <1>8 DEF LoginFails, OneRefresher, Newest
<1>9. CASE Elapse
  <2>1. Newest' = Newest /\ DOMAIN auths' = DOMAIN auths
    <3>1. DOMAIN auths' = 1..Newest
      BY <1>0, <1>9 DEF Elapse, Newest
    <3>2. auths' \in Seq(AuthState)
      BY TokenTypeStep DEF TokenTypeOK, AuthState
    <3> QED BY <1>0, <3>1, <3>2 DEF Newest
  <2>2. ASSUME NEW i \in DOMAIN auths, Active(auths'[i]) PROVE Active(auths[i])
    <3>1. auths[i] \in AuthState
      BY <1>0
    <3>2. auths'[i] = [auths[i] EXCEPT !.timer = IF @ > 0 THEN @ - 1 ELSE @]
      BY <1>9 DEF Elapse
    <3> QED BY <2>2, <3>1, <3>2 DEF AuthState, Off
  <2> QED BY <1>9, <2>1, <2>2 DEF OneRefresher, Elapse
<1>10. CASE UNCHANGED tokenVars
  BY <1>10 DEF tokenVars, OneRefresher, Newest
<1> QED BY <1>2, <1>3, <1>4, <1>5, <1>6, <1>7, <1>8, <1>9, <1>10 DEF TokenNext, Refresher

(* However often the configuration changes, only the newest goroutine      *)
(* refreshes.                                                              *)
THEOREM OnlyNewestRefreshes == TokenSpec => []OneRefresher
<1>1. TokenInit => OneRefresher
  BY DEF TokenInit, OneRefresher, Newest
<1> QED BY <1>1, OneRefresherStep, TokenTypeCorrect, PTL DEF TokenSpec
-----------------------------------------------------------------------------
(* Every retry fits in what is left of a lifetime after the first refresh. *)
RetriesFit ==
    \A lifetime \in Lifetimes : RetryDelay * MaxErrors < lifetime - Interval(lifetime)

(* How late the next refresh can be: three quarters of the lifetime, and   *)
(* one retry delay for every error so far.                                 *)
Deadline == Interval(token.life) + RetryDelay * errors

(* While no login is pending the newest auth has a timer running that goes *)
(* off by the deadline, or is asking for a token before it.                *)
Armed ==
    /\ token.life \in Lifetimes
    /\ change \in {"idle", "stop"} =>
         \/ /\ auths[Newest].loop = "select"
            /\ auths[Newest].timer \in Nat
            /\ token.age + auths[Newest].timer <= Deadline
         \/ auths[Newest].loop = "fetch" /\ token.age <= Deadline

LEMMA StartArmed ==
    ASSUME RetriesFit, NEW lifetime \in Lifetimes
    PROVE  /\ lifetime > 0
           /\ Interval(lifetime) \in Nat
           /\ Started(lifetime) = [loop |-> "select", timer |-> Interval(lifetime)]
<1>1. lifetime \in Nat /\ RetryDelay * MaxErrors \in Nat
  BY TokenAssumption
<1>2. Interval(lifetime) \in Nat /\ Interval(lifetime) <= lifetime
  BY <1>1, StartedType
<1>3. RetryDelay * MaxErrors < lifetime - Interval(lifetime)
  BY DEF RetriesFit
<1>4. lifetime > 0
  BY <1>1, <1>2, <1>3
<1> QED BY <1>2, <1>4 DEF Started

LEMMA ArmedStep ==
    ASSUME RetriesFit
    PROVE  TokenTypeOK /\ OneRefresher /\ Armed /\ [TokenNext]_tokenVars => Armed'
<1> SUFFICES ASSUME TokenTypeOK, OneRefresher, Armed, [TokenNext]_tokenVars PROVE Armed'
  OBVIOUS
<1> USE TokenAssumption
<1>0. /\ auths \in Seq(AuthState) /\ Newest \in Nat /\ Newest \in DOMAIN auths
      /\ auths[Newest] \in AuthState
  <2>1. auths \in Seq(AuthState) /\ Newest \in Nat /\ Newest \in DOMAIN auths
    BY DEF TokenTypeOK, AuthState, Newest
  <2> QED BY <2>1
<1>a. /\ token.age \in Nat /\ token.life \in Nat /\ errors \in Nat
      /\ Interval(token.life) \in Nat /\ RetryDelay * errors \in Nat
  <2>1. token.age \in Nat /\ token.life \in Nat /\ errors \in Nat
    BY DEF TokenTypeOK
  <2> QED BY <2>1, StartedType
(* Only the newest goroutine acts, and its position does not change.       *)
<1>b. ASSUME NEW i \in DOMAIN auths, NEW a \in AuthState, auths' = [auths EXCEPT ![i] = a],
             auths[i].timer # Off \/ auths[i].loop = "fetch"
      PROVE  i = Newest /\ Newest' = Newest /\ auths'[Newest'] = a /\ change # "login"
  <2>1. i = Newest /\ change # "login"
    BY <1>b DEF OneRefresher
  <2>2. Newest' = Newest
    BY <1>0, <1>b DEF Newest
  <2> QED BY <1>0, <1>b, <2>1, <2>2
<1>1. ASSUME NEW i \in DOMAIN auths, Fire(i) PROVE Armed'
  <2>1. [loop |-> "fetch", timer |-> Off] \in AuthState
    BY DEF AuthState
  <2>2. auths[i].timer # Off
    BY <1>1 DEF Fire, Off
  <2>3. i = Newest /\ Newest' = Newest /\ auths'[Newest'].loop = "fetch"
    BY <1>1, <1>b, <2>1, <2>2 DEF Fire
  <2>4. change \in {"idle", "stop"} => token.age <= Deadline
    BY <1>0, <1>a, <1>1, <2>3 DEF Armed, Fire, Deadline
  <2> QED BY <1>1, <2>3, <2>4 DEF Fire, Armed, Deadline
<1>2. ASSUME NEW i \in DOMAIN auths, Refreshed(i) PROVE Armed'
  <2>1. PICK lifetime \in Lifetimes :
          /\ auths' = [auths EXCEPT ![i] = [loop |-> "select",
                                            timer |-> IF lifetime > 0 THEN Interval(lifetime)
                                                      ELSE Off]]
          /\ token' = IF i = Newest THEN [age |-> 0, life |-> lifetime] ELSE token
    BY <1>2 DEF Refreshed
  <2>2. lifetime > 0 /\ Interval(lifetime) \in Nat
    BY StartArmed
  <2> DEFINE a == [loop |-> "select", timer |-> Interval(lifetime)]
  <2>3. a \in AuthState /\ auths' = [auths EXCEPT ![i] = a]
    BY <2>1, <2>2 DEF AuthState
  <2>4. i = Newest /\ auths'[Newest'] = a
    BY <1>2, <1>b, <2>3 DEF Refreshed
  <2>5. token' = [age |-> 0, life |-> lifetime] /\ UNCHANGED errors
    BY <1>2, <2>1, <2>4 DEF Refreshed
  <2> QED BY <1>a, <2>2, <2>4, <2>5 DEF Armed, Deadline
<1>3. ASSUME NEW i \in DOMAIN auths, RefreshFails(i) PROVE Armed'
  <2> DEFINE a == [loop |-> "select", timer |-> RetryDelay]
  <2>1. a \in AuthState
    BY DEF AuthState
  <2>2. i = Newest /\ auths'[Newest'] = a /\ change # "login"
    BY <1>3, <1>b, <2>1 DEF RefreshFails
  <2>3. errors' = errors + 1 /\ UNCHANGED <<token, change>>
    BY <1>3 DEF RefreshFails
  <2>4. change \in {"idle", "stop"} => token.age <= Deadline
    BY <1>3, <2>2 DEF Armed, RefreshFails
  <2>5. RetryDelay * (errors + 1) = RetryDelay * errors + RetryDelay
    BY <1>a
  <2>6. Deadline' = Deadline + RetryDelay
    BY <1>a, <2>3, <2>5 DEF Deadline
  <2>7. Deadline \in Nat
    BY <1>a DEF Deadline
  <2> HIDE DEF Deadline
  <2> QED BY <1>a, <2>2, <2>3, <2>4, <2>6, <2>7 DEF Armed
<1>4. CASE BeginChange
  BY <1>4 DEF BeginChange, Armed, Newest, Deadline
<1>5. CASE StopAuth
  BY <1>5 DEF StopAuth, Armed
<1>6. CASE Login
  <2>1. PICK lifetime \in Lifetimes : /\ auths' = Append(auths, Started(lifetime))
                                      /\ token' = [age |-> 0, life |-> lifetime]
    BY <1>6 DEF Login
  <2>2. /\ Interval(lifetime) \in Nat
        /\ Started(lifetime) = [loop |-> "select", timer |-> Interval(lifetime)]
    BY StartArmed
  <2>3. auths'[Newest'] = [loop |-> "select", timer |-> Interval(lifetime)]
    <3>1. Started(lifetime) \in AuthState
      BY StartedType
    <3> QED BY <1>0, <2>1, <2>2, <3>1 DEF Newest
  <2>4. token'.life = lifetime /\ token'.age = 0 /\ UNCHANGED errors
    BY <1>6, <2>1 DEF Login
  <2>5. Deadline' = Interval(lifetime) + RetryDelay * errors
    BY <2>4 DEF Deadline
  <2> QED BY <1>a, <2>2, <2>3, <2>4, <2>5 DEF Armed
<1>7. CASE LoginFails
  BY <1>7 DEF LoginFails, Armed
<1>8. CASE Elapse
  <2>1. Newest' = Newest
    <3>1. DOMAIN auths' = 1..Newest
      BY <1>0, <1>8 DEF Elapse, Newest
    <3>2. auths' \in Seq(AuthState)
      BY TokenTypeStep DEF TokenTypeOK, AuthState
    <3> QED BY <1>0, <3>1, <3>2 DEF Newest
  <2>2. auths[Newest].timer # 0 /\ auths[Newest].loop # "fetch"
    BY <1>0, <1>8 DEF Elapse, Due
  <2>3. auths'[Newest] = [auths[Newest] EXCEPT !.timer = IF @ > 0 THEN @ - 1 ELSE @]
    BY <1>0, <1>8 DEF Elapse
  <2>4. /\ token'.life = token.life /\ token'.age \in {token.age, token.age + 1}
        /\ UNCHANGED <<change, errors>>
    BY <1>8 DEF Elapse, TokenTypeOK
  <2>5. Deadline' = Deadline
    BY <2>4 DEF Deadline
  <2>6. Deadline \in Nat
    BY <1>a DEF Deadline
  <2>7. CASE change \in {"idle", "stop"}
    <3> HIDE DEF Deadline
    <3>1. /\ auths[Newest].loop = "select" /\ auths[Newest].timer \in Nat
          /\ token.age + auths[Newest].timer <= Deadline
      BY <2>2, <2>7 DEF Armed
    <3>2. /\ auths'[Newest].loop = "select"
          /\ auths'[Newest].timer = auths[Newest].timer - 1
      BY <1>0, <2>2, <2>3, <3>1 DEF AuthState
    <3>3. token'.age + auths'[Newest].timer <= Deadline /\ auths'[Newest].timer \in Nat
      BY <1>a, <2>2, <2>4, <2>6, <3>1, <3>2
    <3> QED BY <2>1, <2>4, <2>5, <3>2, <3>3 DEF Armed
  <2>8. CASE change \notin {"idle", "stop"}
    BY <2>4, <2>8 DEF Armed
  <2> QED BY <2>7, <2>8
<1>9. CASE UNCHANGED tokenVars
  BY <1>9 DEF tokenVars, Armed, Newest, Deadline
<1> QED BY <1>1, <1>2, <1>3, <1>4, <1>5, <1>6, <1>7, <1>8, <1>9 DEF TokenNext, Refresher

LEMMA ArmedFresh ==
    ASSUME RetriesFit, TokenTypeOK, Armed
    PROVE  TokenFresh
<1> SUFFICES ASSUME change \in {"idle", "stop"} PROVE token.age < token.life
  BY DEF TokenFresh, Alive, TokenTypeOK
<1>1. /\ token.age \in Nat /\ token.life \in Nat /\ errors \in Nat /\ errors <= MaxErrors
      /\ MaxErrors \in Nat /\ RetryDelay \in Nat
  BY TokenAssumption DEF TokenTypeOK
<1>2. Interval(token.life) \in Nat
  BY <1>1, StartedType
<1>3. RetryDelay * errors <= RetryDelay * MaxErrors
  <2>1. PICK k \in Nat : MaxErrors = errors + k
    <3>1. MaxErrors - errors \in Nat /\ MaxErrors = errors + (MaxErrors - errors)
      BY <1>1
    <3> QED BY <3>1
  <2>2. RetryDelay * (errors + k) = RetryDelay * errors + RetryDelay * k
    BY <1>1, <2>1
  <2>3. RetryDelay * k \in Nat /\ RetryDelay * errors \in Nat
    BY <1>1, <2>1
  <2> QED BY <2>1, <2>2, <2>3
<1>4. token.age <= Interval(token.life) + RetryDelay * errors
  <2>1. RetryDelay * errors \in Nat
    BY <1>1
  <2> QED BY <1>1, <1>2, <2>1 DEF Armed, Deadline
<1>5. RetryDelay * MaxErrors < token.life - Interval(token.life)
  BY DEF RetriesFit, Armed
<1>6. RetryDelay * MaxErrors \in Nat /\ RetryDelay * errors \in Nat
  BY <1>1
<1> QED BY <1>1, <1>2, <1>3, <1>4, <1>5, <1>6

(* If the retries fit in a lifetime, no request uses an expired token.     *)
THEOREM TokenStaysFresh ==
    ASSUME RetriesFit
    PROVE  TokenSpec => []TokenFresh
<1>1. TokenInit => Armed
  <2> SUFFICES ASSUME TokenInit PROVE Armed
    OBVIOUS
  <2>1. PICK lifetime \in Lifetimes : /\ auths = <<Started(lifetime)>>
                                      /\ token = [age |-> 0, life |-> lifetime]
    BY DEF TokenInit
  <2>2. /\ Interval(lifetime) \in Nat
        /\ Started(lifetime) = [loop |-> "select", timer |-> Interval(lifetime)]
    BY StartArmed
  <2>3. Newest = 1 /\ auths[1] = Started(lifetime) /\ errors = 0
    BY <2>1 DEF Newest, TokenInit
  <2>4. RetryDelay * 0 = 0
    BY TokenAssumption
  <2> QED BY <2>1, <2>2, <2>3, <2>4 DEF Armed, Deadline
<1>2. TokenTypeOK /\ OneRefresher /\ Armed /\ [TokenNext]_tokenVars => Armed'
  BY ArmedStep
<1>3. TokenTypeOK /\ Armed => TokenFresh
  BY ArmedFresh
<1> QED BY <1>1, <1>2, <1>3, OnlyNewestRefreshes, TokenTypeCorrect, PTL DEF TokenSpec
=============================================================================

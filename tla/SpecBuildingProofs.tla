------------------------- MODULE SpecBuildingProofs -------------------------
(***************************************************************************)
(* Theorems about SpecBuilding, for any assets, policies and failures.     *)
(***************************************************************************)
EXTENDS SpecBuilding, WellFoundedInduction, TLAPS

(* Choosing.  The minimum of a set of numbers comes from the               *)
(* well-foundedness of their order.                                        *)

LEMMA MinExists ==
    ASSUME NEW S, S \subseteq Nat, S # {}
    PROVE  \E x \in S : \A y \in S : x <= y
<1> DEFINE R == OpToRel(<, Nat)
<1>1. IsWellFoundedOn(R, Nat)
  BY NatLessThanWellFounded
<1>2. \A x, y \in Nat : <<y, x>> \in R <=> y < x
  BY DEF OpToRel
<1> HIDE DEF R
<1>3. PICK x \in S : \A y \in S : ~(<<y, x>> \in R)
  BY <1>1, WFMin
<1>4. ASSUME NEW y \in S PROVE x <= y
  <2>1. x \in Nat /\ y \in Nat
    BY <1>3
  <2>2. ~(y < x)
    BY <1>2, <1>3, <2>1
  <2> QED BY <2>1, <2>2
<1> QED BY <1>3, <1>4

LEMMA KindsType == ASSUME NEW ps PROVE Kinds(ps) \subseteq AuthKinds
BY DEF Kinds, AuthOf, AuthKinds

LEMMA FirstOfIsNat ==
    ASSUME NEW ps, DOMAIN ps \subseteq Nat, NEW k \in Kinds(ps)
    PROVE  FirstOf(ps, k) \in Nat
<1> DEFINE S == {i \in DOMAIN ps : AuthOf(ps[i]) = k}
<1>1. S \subseteq Nat /\ S # {}
  BY DEF Kinds
<1>2. PICK i \in S : \A j \in S : i <= j
  BY <1>1, MinExists
<1>3. /\ i \in DOMAIN ps /\ AuthOf(ps[i]) = k
      /\ \A j \in DOMAIN ps : AuthOf(ps[j]) = k => i <= j
  BY <1>2
<1>4. FirstOf(ps, k) \in DOMAIN ps
  BY <1>3 DEF FirstOf
<1> QED BY <1>4

(* The credential offered is of a kind the API asks for.                   *)
LEMMA OfferIsAsked ==
    ASSUME NEW ps, DOMAIN ps \subseteq Nat
    PROVE  IF Kinds(ps) = {} THEN CredentialKind(ps) = "none"
                             ELSE CredentialKind(ps) \in Kinds(ps)
<1>1. CASE Kinds(ps) = {}
  BY <1>1 DEF CredentialKind
<1>2. CASE Kinds(ps) # {}
  <2>1. \A k \in Kinds(ps) : FirstOf(ps, k) \in Nat
    BY FirstOfIsNat
  <2>2. \E k \in Kinds(ps) : \A l \in Kinds(ps) : FirstOf(ps, l) <= FirstOf(ps, k)
    <3>1. Kinds(ps) \subseteq {"oauth", "basic"}
      BY KindsType DEF AuthKinds
    <3> HIDE DEF Kinds
    <3> QED BY <1>2, <2>1, <3>1
  <2> DEFINE Last(k) == \A l \in Kinds(ps) : FirstOf(ps, l) <= FirstOf(ps, k)
  <2>3. (CHOOSE k \in Kinds(ps) : Last(k)) \in Kinds(ps)
    BY <2>2
  <2> QED BY <1>2, <2>3 DEF CredentialKind
<1> QED BY <1>1, <1>2

LEMMA PreferenceIsNat == \A c : Preference(c) \in Nat
BY DEF Preference, Known, specPreference

LEMMA SupportedIsPreferred ==
    \A c : c \in {"oas", "fat-oas", "wsdl"} <=> Preference(c) <= 2
BY DEF Preference, Known, specPreference

(* Sorting puts a file of the most preferred classifier first.             *)
LEMMA FirstIsBest ==
    ASSUME NEW files, NEW S, S \subseteq DOMAIN files, S \subseteq Nat, S # {}
    PROVE  /\ FirstSorted(files, S) \in S
           /\ \A j \in S : Preference(files[FirstSorted(files, S)].classifier)
                             <= Preference(files[j].classifier)
<1> DEFINE P(i) == Preference(files[i].classifier)
           Values == {P(i) : i \in S}
           First(i) == \A j \in S : P(i) < P(j) \/ (P(i) = P(j) /\ i <= j)
<1>0. \A i : P(i) \in Nat
  BY PreferenceIsNat
<1> HIDE DEF P
<1>1. Values \subseteq Nat /\ Values # {}
  BY <1>0
<1>2. PICK v \in Values : \A w \in Values : v <= w
  BY <1>1, MinExists
<1> DEFINE Best == {i \in S : P(i) = v}
<1>3. Best \subseteq Nat /\ Best # {}
  BY <1>2
<1>4. PICK i \in Best : \A j \in Best : i <= j
  BY <1>3, MinExists
<1>5. First(i)
  <2> SUFFICES ASSUME NEW j \in S PROVE P(i) < P(j) \/ (P(i) = P(j) /\ i <= j)
    OBVIOUS
  <2>1. P(i) <= P(j) /\ P(i) \in Nat /\ P(j) \in Nat
    BY <1>0, <1>2, <1>4
  <2>2. P(i) = P(j) => i <= j
    BY <1>4
  <2> QED BY <2>1, <2>2
<1>6. FirstSorted(files, S) = CHOOSE k \in S : First(k)
  BY DEF FirstSorted, P
<1>7. i \in S
  BY <1>4
<1> DEFINE f == CHOOSE k \in S : First(k)
<1>8. f \in S /\ First(f)
  <2> HIDE DEF First
  <2> QED BY <1>5, <1>7
<1>9. \A j \in S : P(f) <= P(j)
  <2> HIDE DEF f
  <2> QED BY <1>0, <1>8
<1> HIDE DEF f
<1>10. FirstSorted(files, S) = f
  BY <1>6 DEF f
<1> QED BY <1>8, <1>9, <1>10 DEF P

(* The file chosen is supported and of the most preferred classifier;      *)
(* there is none only if no file is supported.                             *)
LEMMA ChoiceIsBest ==
    ASSUME NEW files, DOMAIN files \subseteq Nat
    PROVE  /\ SpecFiles(files, original) \subseteq DOMAIN files
           /\ \A i \in SpecFiles(files, original), j \in DOMAIN files :
                 Supported(files[j]) =>
                    Preference(files[i].classifier) <= Preference(files[j].classifier)
           /\ \A i \in SpecFiles(files, original) : Supported(files[i])
           /\ SpecFiles(files, original) = {} => \A j \in DOMAIN files : ~Supported(files[j])
<1> DEFINE Fit == IF original
                  THEN {i \in DOMAIN files : Known(files[i].classifier) /\ files[i].main # ""}
                  ELSE DOMAIN files
           f == FirstSorted(files, Fit)
<1>1. Fit \subseteq DOMAIN files /\ Fit \subseteq Nat
  OBVIOUS
<1>2. \A j \in DOMAIN files : Supported(files[j]) => j \in Fit
  BY DEF Supported
<1>3. CASE Fit = {}
  <2>1. SpecFiles(files, original) = {}
    BY <1>3 DEF SpecFiles
  <2> QED BY <1>2, <1>3, <2>1
<1>4. CASE Fit # {}
  <2>1. f \in Fit /\ \A j \in Fit : Preference(files[f].classifier)
                                      <= Preference(files[j].classifier)
    BY <1>1, <1>4, FirstIsBest
  <2>2. SpecFiles(files, original) =
          IF original \/ files[f].classifier \in {"oas", "fat-oas", "wsdl"} THEN {f} ELSE {}
    BY <1>4 DEF SpecFiles
  <2>3. (original \/ files[f].classifier \in {"oas", "fat-oas", "wsdl"}) <=> Supported(files[f])
    BY <2>1 DEF Supported
  <2>4. ASSUME ~Supported(files[f]), NEW j \in DOMAIN files PROVE ~Supported(files[j])
    <3> SUFFICES ASSUME Supported(files[j]) PROVE FALSE
      OBVIOUS
    <3>1. ~original
      BY <2>3, <2>4
    <3>2. Preference(files[j].classifier) <= 2 /\ ~(Preference(files[f].classifier) <= 2)
      BY <2>3, <2>4, <3>1, SupportedIsPreferred DEF Supported
    <3>3. Preference(files[f].classifier) <= Preference(files[j].classifier)
      BY <1>2, <2>1
    <3>4. /\ Preference(files[f].classifier) \in Nat
          /\ Preference(files[j].classifier) \in Nat
      BY PreferenceIsNat
    <3> HIDE DEF f
    <3> QED BY <3>2, <3>3, <3>4
  <2> HIDE DEF f, Fit
  <2> QED BY <1>1, <1>2, <2>1, <2>2, <2>3, <2>4
<1> QED BY <1>3, <1>4
-----------------------------------------------------------------------------
(* The inductive invariant, in parts: what a handling starts from, where   *)
(* it is, that the offer and the configuration come from the same          *)
(* policies, which file was chosen, what was read from it, and what the    *)
(* specification was made of.                                              *)

Phases == {"policies", "policiesAgain", "asset", "content", "parse", "rewrite", "icon", "done"}

InputOK == asset \in Assets /\ policies \in PolicyLists /\ original \in Originals

PhaseOK == /\ pc \in Phases /\ failed \in BOOLEAN /\ made \in BOOLEAN
           /\ made => pc = "done" /\ ~failed
           /\ failed => pc = "done"

OfferAgrees == /\ DOMAIN conf \subseteq AuthKinds
               /\ IF DOMAIN conf = {} THEN crd = "none" ELSE crd \in DOMAIN conf

HasFile == pc \in {"content", "parse", "rewrite", "icon"} \/ made
Chosen == /\ HasFile => \E i \in SpecFiles(asset, original) : file = asset[i]
          /\ pc = "done" /\ ~failed /\ ~made => SpecFiles(asset, original) = {}

HasContent == pc \in {"parse", "rewrite", "icon"} \/ made
ReadFrom(f) ==
    \/ ~f.zip /\ raw = f.entries[1].content /\ ~tagged
    \/ raw = Archive /\ ~tagged
    \/ f.zip /\ \E e \in DOMAIN f.entries :
          /\ raw = f.entries[e].content
          /\ tagged = (~original /\ f.entries[e].name = "api.json")
Fetched == /\ tagged \in BOOLEAN
           /\ pc \in {"policies", "policiesAgain", "asset", "content"} => ~tagged
           /\ HasContent => ReadFrom(file)

Rewritten == pc = "icon" \/ made =>
    ~spec.rewritten \/ \E kind \in ContentKinds : spec = SetPolicies(kind, conf)

Inv == InputOK /\ PhaseOK /\ OfferAgrees /\ Chosen /\ Fetched /\ Rewritten

LEMMA ReceivedDomain == ASSUME NEW ps PROVE DOMAIN Received(ps) = DOMAIN ps
BY DEF Received

LEMMA InvInit == Init => Inv
<1> SUFFICES ASSUME Init PROVE Inv
  OBVIOUS
<1>1. InputOK /\ PhaseOK
  BY DEF Init, InputOK, PhaseOK, Phases
<1>2. OfferAgrees
  <2>1. conf = <<>> /\ crd = "none"
    BY DEF Init
  <2>2. DOMAIN conf = {}
    BY <2>1
  <2> QED BY <2>1, <2>2 DEF OfferAgrees
<1>3. Chosen /\ Rewritten
  BY DEF Init, Chosen, HasFile, Rewritten
<1>4. Fetched
  BY DEF Init, Fetched, HasContent
<1> QED BY <1>1, <1>2, <1>3, <1>4 DEF Inv

LEMMA InputStep == InputOK /\ [Next]_vars => InputOK'
BY DEF InputOK, Next, vars, input, ArrayAnswer, GetPolicies, GetExchangeAsset,
       GetExchangeFileContent, Parse, ParseFails, UpdateSpec, GetExchangeAssetIcon, CallFails

LEMMA PhaseStep == PhaseOK /\ [Next]_vars => PhaseOK'
<1> SUFFICES ASSUME PhaseOK, [Next]_vars PROVE PhaseOK'
  OBVIOUS
<1> USE DEF PhaseOK, Phases
<1>1. CASE ArrayAnswer
  BY <1>1 DEF ArrayAnswer
<1>2. CASE GetPolicies
  BY <1>2 DEF GetPolicies
<1>3. CASE GetExchangeAsset
  BY <1>3 DEF GetExchangeAsset
<1>4. CASE GetExchangeFileContent
  BY <1>4 DEF GetExchangeFileContent
<1>5. CASE Parse
  BY <1>5 DEF Parse
<1>5a. CASE ParseFails
  BY <1>5a DEF ParseFails
<1>6. CASE UpdateSpec
  BY <1>6 DEF UpdateSpec
<1>7. CASE GetExchangeAssetIcon
  BY <1>7 DEF GetExchangeAssetIcon
<1>8. CASE CallFails
  BY <1>8 DEF CallFails
<1>9. CASE UNCHANGED vars
  BY <1>9 DEF vars
<1> QED BY <1>1, <1>2, <1>3, <1>4, <1>5, <1>6, <1>7, <1>8, <1>9, <1>5a DEF Next

LEMMA OfferStep == InputOK /\ OfferAgrees /\ [Next]_vars => OfferAgrees'
<1> SUFFICES ASSUME InputOK, OfferAgrees, [Next]_vars PROVE OfferAgrees'
  OBVIOUS
<1>1. CASE GetPolicies
  <2> DEFINE ps == Received(policies)
  <2>1. DOMAIN ps \subseteq Nat
    BY SpecAssumption, ReceivedDomain DEF InputOK
  <2>2. CASE Incompatible(ps)
    BY <1>1, <2>2 DEF GetPolicies, OfferAgrees
  <2>3. CASE ~Incompatible(ps)
    <3>1. conf' = Configuration(ps) /\ crd' = CredentialKind(ps)
      BY <1>1, <2>3 DEF GetPolicies
    <3>2. DOMAIN conf' = Kinds(ps)
      BY <3>1 DEF Configuration
    <3> HIDE DEF ps
    <3> QED BY <2>1, <3>1, <3>2, OfferIsAsked, KindsType DEF OfferAgrees
  <2> QED BY <2>2, <2>3
<1>2. CASE UNCHANGED <<conf, crd>>
  BY <1>2 DEF OfferAgrees
<1> QED BY <1>1, <1>2 DEF Next, vars, ArrayAnswer, GetExchangeAsset,
       GetExchangeFileContent, Parse, ParseFails, UpdateSpec, GetExchangeAssetIcon, CallFails

LEMMA ChosenStep == PhaseOK /\ Chosen /\ [Next]_vars => Chosen'
<1> SUFFICES ASSUME PhaseOK, Chosen, [Next]_vars PROVE Chosen'
  OBVIOUS
<1>1. UNCHANGED <<asset, original>>
  BY DEF Next, vars, input, ArrayAnswer, GetPolicies, GetExchangeAsset,
         GetExchangeFileContent, Parse, ParseFails, UpdateSpec, GetExchangeAssetIcon, CallFails
<1>2. SpecFiles(asset, original)' = SpecFiles(asset, original)
  BY <1>1
<1>3. CASE GetExchangeAsset
  BY <1>1, <1>2, <1>3 DEF GetExchangeAsset, Chosen, HasFile, PhaseOK
<1>4. CASE UNCHANGED file /\ (HasFile' => HasFile)
           /\ (pc' = "done" /\ ~failed' /\ ~made' => pc = "done" /\ ~failed /\ ~made)
  BY <1>1, <1>2, <1>4 DEF Chosen
<1> QED BY <1>3, <1>4 DEF HasFile, PhaseOK, Phases, Next, vars, ArrayAnswer, GetPolicies,
       GetExchangeFileContent, Parse, ParseFails, UpdateSpec, GetExchangeAssetIcon, CallFails

LEMMA FetchedStep == PhaseOK /\ Fetched /\ [Next]_vars => Fetched'
<1> SUFFICES ASSUME PhaseOK, Fetched, [Next]_vars PROVE Fetched'
  OBVIOUS
<1>1. UNCHANGED <<asset, original>>
  BY DEF Next, vars, input, ArrayAnswer, GetPolicies, GetExchangeAsset,
         GetExchangeFileContent, Parse, ParseFails, UpdateSpec, GetExchangeAssetIcon, CallFails
<1>2. CASE GetExchangeFileContent
  <2>1. pc' = "parse" /\ UNCHANGED file /\ ~tagged /\ tagged \in BOOLEAN
    BY <1>2 DEF GetExchangeFileContent, Fetched
  <2>2. ReadFrom(file)' /\ tagged' \in BOOLEAN
    <3>1. CASE ~file.zip /\ raw' = file.entries[1].content /\ UNCHANGED tagged
      BY <2>1, <3>1 DEF ReadFrom
    <3>2. CASE raw' = Archive /\ UNCHANGED tagged
      BY <2>1, <3>2 DEF ReadFrom
    <3>3. ASSUME file.zip, NEW e \in Wanted(file),
                 raw' = file.entries[e].content,
                 tagged' = (~original /\ file.entries[e].name = "api.json")
          PROVE  ReadFrom(file)' /\ tagged' \in BOOLEAN
      BY <1>1, <2>1, <3>3, Zenon DEF ReadFrom, Wanted
    <3> QED BY <1>2, <3>1, <3>2, <3>3 DEF GetExchangeFileContent
  <2> QED BY <2>1, <2>2 DEF Fetched
<1>3. CASE pc = "asset" /\ UNCHANGED <<raw, tagged>> /\ pc' \in {"content", "done"}
           /\ UNCHANGED made
  BY <1>3 DEF Fetched, HasContent, PhaseOK
<1>4. CASE UNCHANGED <<file, raw, tagged>> /\ (HasContent' => HasContent)
           /\ (pc' \in {"policies", "policiesAgain", "asset", "content"}
                 => pc \in {"policies", "policiesAgain", "asset", "content"})
  BY <1>1, <1>4 DEF Fetched, ReadFrom
<1> QED BY <1>2, <1>3, <1>4 DEF HasContent, PhaseOK, Phases, Next, vars, ArrayAnswer,
       GetPolicies, GetExchangeAsset, Parse, ParseFails, UpdateSpec, GetExchangeAssetIcon,
       CallFails

LEMMA RewrittenStep == PhaseOK /\ Rewritten /\ [Next]_vars => Rewritten'
<1> SUFFICES ASSUME PhaseOK, Rewritten, [Next]_vars PROVE Rewritten'
  OBVIOUS
<1>1. CASE UpdateSpec
  <2>1. UNCHANGED conf
    BY <1>1 DEF UpdateSpec
  <2>2. CASE raw.kind \in {"oas2", "oas3", "raml"}
    <3>1. spec' = SetPolicies(raw.kind, conf')
      BY <1>1, <2>1, <2>2 DEF UpdateSpec
    <3> QED BY <2>2, <3>1 DEF Rewritten, ContentKinds
  <2>3. CASE raw.kind \notin {"oas2", "oas3", "raml"}
    <3>1. spec' = [kind |-> raw.kind, rewritten |-> FALSE, schemes |-> <<>>, security |-> {}]
      BY <1>1, <2>3 DEF UpdateSpec
    <3> QED BY <3>1 DEF Rewritten
  <2> QED BY <2>2, <2>3
<1>2. CASE UNCHANGED <<spec, conf>> /\ (pc' = "icon" \/ made' => pc = "icon" \/ made)
  BY <1>2 DEF Rewritten
<1>3. CASE pc' # "icon" /\ ~made'
  BY <1>3 DEF Rewritten
<1> QED BY <1>1, <1>2, <1>3 DEF PhaseOK, Phases, Next, vars, ArrayAnswer, GetPolicies,
       GetExchangeAsset, GetExchangeFileContent, Parse, ParseFails, GetExchangeAssetIcon,
       CallFails

(* The invariant in parts holds throughout the handling of an API: what is  *)
(* known of the file, its content and the offer when the detail is made.   *)
THEOREM HandlingInvariant == Spec => []Inv
<1>1. Init => Inv
  BY InvInit
<1>2. Inv /\ [Next]_vars => Inv'
  BY InputStep, PhaseStep, OfferStep, ChosenStep, FetchedStep, RewrittenStep DEF Inv
<1> QED BY <1>1, <1>2, PTL DEF Spec
-----------------------------------------------------------------------------
(* Type correctness of the handling of one API.                            *)
THEOREM BuildingTypeCorrect == Spec => []TypeOK
<1>1. Inv => TypeOK
  <2> SUFFICES ASSUME Inv PROVE TypeOK
    OBVIOUS
  <2>1. DOMAIN asset \subseteq Nat /\ (HasFile => \E i \in DOMAIN asset : file = asset[i])
    <3>1. DOMAIN asset \subseteq Nat
      BY SpecAssumption DEF Inv, InputOK
    <3> QED BY <3>1, ChoiceIsBest DEF Inv, Chosen
  <2>2. HasContent => raw \in Content
    <3> SUFFICES ASSUME HasContent PROVE raw \in Content
      OBVIOUS
    <3>1. PICK i \in DOMAIN asset : file = asset[i]
      BY <2>1 DEF HasContent, HasFile
    <3>2. /\ 1 \in DOMAIN file.entries
          /\ \A e \in DOMAIN file.entries : file.entries[e].content \in Content
      BY <3>1, SpecAssumption DEF Inv, InputOK
    <3>3. ReadFrom(file)
      BY DEF Inv, Fetched
    <3>4. Archive \in Content
      BY DEF Archive, Content, ContentKinds
    <3> QED BY <3>2, <3>3, <3>4 DEF ReadFrom
  <2>3. crd \in AuthKinds \cup {"none"}
    BY DEF Inv, OfferAgrees
  <2> QED BY <2>1, <2>2, <2>3
          DEF Inv, InputOK, PhaseOK, Phases, OfferAgrees, Fetched, HasFile, HasContent, TypeOK
<1> QED BY <1>1, HandlingInvariant, PTL

(* Of any asset, the most preferred supported file is published, or an     *)
(* error is returned.                                                      *)
THEOREM BestFileIsDelivered == Spec => []BestIsDelivered
<1>1. Inv => BestIsDelivered
  <2> SUFFICES ASSUME Inv, pc = "done", ~failed
      PROVE  IF \E i \in DOMAIN asset : Supported(asset[i])
             THEN /\ made
                  /\ Supported(file)
                  /\ \A i \in DOMAIN asset : Supported(asset[i]) =>
                        Preference(file.classifier) <= Preference(asset[i].classifier)
             ELSE ~made
    BY DEF BestIsDelivered
  <2>1. DOMAIN asset \subseteq Nat
    BY SpecAssumption DEF Inv, InputOK
  <2>2. CASE made
    <3>1. PICK i \in SpecFiles(asset, original) : file = asset[i]
      BY <2>2 DEF Inv, Chosen, HasFile
    <3> QED BY <2>1, <2>2, <3>1, ChoiceIsBest
  <2>3. CASE ~made
    <3>1. SpecFiles(asset, original) = {}
      BY <2>3 DEF Inv, Chosen
    <3> QED BY <2>1, <2>3, <3>1, ChoiceIsBest
  <2> QED BY <2>2, <2>3
<1> QED BY <1>1, HandlingInvariant, PTL

(* Whatever else an asset has, a document converted from RAML is published *)
(* with its tag or, when the original is asked for, not at all.            *)
THEOREM ConversionIsTagged == Spec => []ConversionIsTold
<1>1. Inv => ConversionIsTold
  <2> SUFFICES ASSUME Inv, made
      PROVE  /\ raw.conversion => tagged /\ ~original
             /\ tagged => raw.conversion \/ file.main = "api.json"
    BY DEF ConversionIsTold
  <2>1. asset \in Assets /\ DOMAIN asset \subseteq Nat
    BY SpecAssumption DEF Inv, InputOK
  <2>2. PICK i \in SpecFiles(asset, original) : file = asset[i]
    BY DEF Inv, Chosen, HasFile
  <2>3. i \in DOMAIN asset /\ Supported(file)
    BY <2>1, <2>2, ChoiceIsBest
  <2>4. \A e \in DOMAIN file.entries :
           /\ file.entries[e].content.conversion =>
                file.zip /\ file.main = "" /\ file.entries[e].name = "api.json"
           /\ file.zip /\ file.entries[e].name = "api.json" =>
                file.entries[e].content.conversion \/ file.main = "api.json"
    BY <2>1, <2>2, <2>3, ConversionAssumption
  <2>5. 1 \in DOMAIN file.entries
    BY <2>1, <2>2, <2>3, SpecAssumption
  <2>6. original => file.main # ""
    BY <2>3 DEF Supported
  <2>7. ReadFrom(file)
    BY DEF Inv, Fetched, HasContent
  <2>8. CASE ~file.zip /\ raw = file.entries[1].content /\ ~tagged
    BY <2>4, <2>5, <2>8
  <2>9. CASE raw = Archive /\ ~tagged
    BY <2>9 DEF Archive
  <2>10. CASE /\ file.zip
              /\ \E e \in DOMAIN file.entries :
                    /\ raw = file.entries[e].content
                    /\ tagged = (~original /\ file.entries[e].name = "api.json")
    BY <2>4, <2>6, <2>10
  <2> QED BY <2>7, <2>8, <2>9, <2>10 DEF ReadFrom
<1> QED BY <1>1, HandlingInvariant, PTL

(* Whatever policies an API has, the credential offered to its consumers   *)
(* meets the security that is published, and that security is defined.     *)
THEOREM CredentialAlwaysFits == Spec => []CredentialFits
<1>1. Inv => CredentialFits
  <2> SUFFICES ASSUME Inv, made, spec.rewritten
      PROVE  /\ IF crd = "none" THEN spec.security = {}
                ELSE \E r \in spec.security : r.scheme = crd
             /\ \A r \in spec.security :
                   /\ r.scheme \in DOMAIN spec.schemes
                   /\ r.scheme = "oauth" /\ spec.kind # "raml" =>
                        r.scopes = spec.schemes[r.scheme]
    BY DEF CredentialFits
  <2>1. PICK kind \in ContentKinds : spec = SetPolicies(kind, conf)
    BY DEF Inv, Rewritten
  <2> DEFINE S(a) == [scheme |-> a, scopes |-> Required(kind, a, conf[a])]
             C == [a \in DOMAIN conf |->
                     IF a = "oauth" /\ kind # "raml" THEN conf[a].conf ELSE {}]
  <2>2. /\ spec.kind = kind /\ spec.schemes = C
        /\ spec.security = {S(a) : a \in DOMAIN conf}
    BY <2>1 DEF SetPolicies
  <2>3. \A a : S(a).scheme = a /\ S(a).scopes = Required(kind, a, conf[a])
    OBVIOUS
  <2> HIDE DEF S
  <2>4. DOMAIN C = DOMAIN conf
    OBVIOUS
  <2>5. ASSUME NEW r \in spec.security
        PROVE  /\ r.scheme \in DOMAIN spec.schemes
               /\ r.scheme = "oauth" /\ spec.kind # "raml" => r.scopes = spec.schemes[r.scheme]
    <3>1. PICK a \in DOMAIN conf : r = S(a)
      BY <2>2
    <3>2. r.scheme = a /\ r.scopes = Required(kind, a, conf[a])
      BY <2>3, <3>1
    <3>3. Required(kind, "oauth", conf["oauth"]) = conf["oauth"].conf
      BY DEF Required
    <3> QED BY <2>2, <2>4, <3>2, <3>3
  <2>6. IF DOMAIN conf = {} THEN crd = "none" ELSE crd \in DOMAIN conf
    BY DEF Inv, OfferAgrees
  <2>7. DOMAIN conf # {} => crd # "none"
    BY <2>6 DEF Inv, OfferAgrees, AuthKinds
  <2>8. IF crd = "none" THEN spec.security = {} ELSE \E r \in spec.security : r.scheme = crd
    BY <2>2, <2>3, <2>6, <2>7
  <2> QED BY <2>5, <2>8
<1> QED BY <1>1, HandlingInvariant, PTL
=============================================================================

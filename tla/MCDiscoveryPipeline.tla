------------------------ MODULE MCDiscoveryPipeline ------------------------
(* Instances of DiscoveryPipeline for TLC.                                 *)
EXTENDS DiscoveryPipeline

CONSTANTS a1, a2, w1, w2, p0, p1, internal, Internal, blank

MCTags == {internal, Internal, blank}
MCLower == [t \in MCTags |-> IF t = Internal THEN internal ELSE t]
MCTrim == [t \in MCTags |-> t]

Public == [endpoint |-> TRUE, tags |-> {}]
Tagged == [endpoint |-> TRUE, tags |-> {Internal}]
MCContents == {Public, Tagged}

(* Three ways to configure the tags; blank entries do not count.           *)
HideInternal == [discovery |-> {}, ignore |-> {Internal}]
OnlyInternal == [discovery |-> {Internal}, ignore |-> {blank}]
ShowAll == [discovery |-> {blank}, ignore |-> {}]
AllOrOnly == {ShowAll, OnlyInternal}
HideOrAll == {HideInternal, ShowAll}
JustHide == {HideInternal}

Open == <<>>
Basic == <<[template |-> "basic", origin |-> "absent", conf |-> 1]>>
Custom == <<[template |-> "clientId", origin |-> "customExpression", conf |-> 1]>>

(* Two assets of one API, one asset of two APIs, or one lone API.          *)
TwoAssets == <<<<a1>>, <<a2>>>>
OneAsset == <<<<a1, a2>>>>
LoneApi == <<<<a1>>>>
Swapped == <<<<a2>>, <<a1>>>>
OnlyLoneApi == {LoneApi}

(* The list shrinks: the API of the second asset comes to be one of the    *)
(* first.  The order changes: within a pass one of the two assets may come  *)
(* on both pages and the other on none.                                    *)
Shrinking == {TwoAssets, OneAsset}
Reordering == {TwoAssets, Swapped}

JustOpen == {Open}
OpenBasic == {Open, Basic}
BasicCustom == {Basic, Custom}

OneInternal == [a \in Apis |-> [content |-> IF a = a2 THEN Tagged ELSE Public,
                                proxy |-> p0, policies |-> Open]]
OneCustom == [a \in Apis |-> [content |-> Public, proxy |-> p0,
                              policies |-> IF a = a2 THEN Custom ELSE Basic]]
MCInitial == [a \in Apis |-> [content |-> Public, proxy |-> p0, policies |-> Open]]
=============================================================================

--------------------------- MODULE RevisionLedger ---------------------------
(***************************************************************************)
(* What the discovery agent promises, without polls, goroutines, caches or *)
(* crashes: a ledger of revisions in Amplify Central.  An entry is a       *)
(* reading of one API, each part of which the API really had at some time; *)
(* it passed the filters; no entry is made twice; and the present state of *)
(* an API to be discovered is eventually in the ledger.                    *)
(*                                                                         *)
(* An entry may be torn (the list entry, the proxy path and the policies   *)
(* are read by separate calls): the promise is per part.                   *)
(***************************************************************************)
EXTENDS DiscoveryFilter, PolicyMapping

CONSTANTS Apis, Listings, Listing, Contents, Proxies, PolicyLists, WithSpec, Initial,
          TagConfigs, TagConfig

VARIABLES live, seen, listing, configured, ledger

ledgerVars == <<live, seen, listing, configured, ledger>>

Parts == {"content", "proxy", "policies"}

Init == /\ live = Initial
        /\ seen = [a \in Apis |-> [part \in Parts |-> {Initial[a][part]}]]
        /\ listing = Listing
        /\ configured = TagConfig
        /\ ledger = <<>>

(* An API gets a new content, proxy path or list of policies.              *)
Change(a) ==
    /\ live' \in {[live EXCEPT ![a] = new] :
                    new \in [content : Contents, proxy : Proxies, policies : PolicyLists]}
    /\ seen' = [seen EXCEPT ![a] = [part \in Parts |-> @[part] \cup {live'[a][part]}]]
    /\ UNCHANGED <<listing, configured, ledger>>

(* Other assets are listed, or in another order.                           *)
Relist == /\ listing' \in Listings \ {listing}
          /\ UNCHANGED <<live, seen, configured, ledger>>

(* Other tags are configured.                                              *)
Reconfigure == /\ configured = TagConfig
               /\ configured' \in TagConfigs \ {configured}
               /\ UNCHANGED <<live, seen, listing, ledger>>

Listed(a, list) == \E i \in DOMAIN list : \E j \in DOMAIN list[i] : list[i][j] = a

(* A reading of API a that may be recorded.                                *)
Reading(a, content, proxy, policies) ==
    [api |-> a, content |-> content, proxy |-> proxy, config |-> Configuration(policies)]

Acceptable(a, lists, content, policies) ==
    /\ a \in WithSpec
    /\ ShouldDiscover(Cleaned(lists), content.endpoint, content.tags)
    /\ ~Incompatible(policies)

Record(c) == /\ \A i \in DOMAIN ledger : ledger[i] # c
             /\ ledger' = Append(ledger, c)
             /\ UNCHANGED <<live, seen, listing, configured>>

RecordSeen(a) ==
    /\ \E list \in Listings : Listed(a, list)
    /\ \E content \in seen[a].content, proxy \in seen[a].proxy, ps \in seen[a].policies,
          lists \in {TagConfig, configured} :
         /\ Acceptable(a, lists, content, ps)
         /\ Record(Reading(a, content, proxy, ps))

(* The present state of a listed API that passes the filters is owed until *)
(* it is recorded.                                                         *)
Owed(a) ==
    LET now == live[a]
    IN  /\ Listed(a, listing)
        /\ Acceptable(a, configured, now.content, now.policies)
        /\ \A i \in DOMAIN ledger :
              ledger[i] # Reading(a, now.content, now.proxy, now.policies)

Next == Relist \/ Reconfigure \/ \E a \in Apis : Change(a) \/ RecordSeen(a)

Spec == Init /\ [][Next]_ledgerVars

(* No API stays owed for ever, which is what weak fairness of recording    *)
(* its present state comes to.                                             *)
Settled(a) == []<>~Owed(a)
AllSettled == \A a \in Apis : Settled(a)

FairSpec == Spec /\ AllSettled
=============================================================================

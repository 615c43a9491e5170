-------------------------- MODULE DiscoveryFilter --------------------------
(***************************************************************************)
(* Which API instances the discovery agent considers at all: the tag and   *)
(* endpoint filter of pkg/discovery/servicehandler.go and the cleaning of  *)
(* the configured tag lists in pkg/discovery/agent.go.                     *)
(*                                                                         *)
(* A tag is an element of the finite set Tags.  What the code does with    *)
(* the text of a tag is its case folding and trimming: Fold maps a tag to  *)
(* its trimmed lower-case form, Lower to its lower-case form, and Blank is *)
(* the empty text a trimmed tag may become.                                *)
(***************************************************************************)
EXTENDS Sequences

CONSTANTS Tags,                 \* the tag texts that occur
          Blank,                \* the empty text, an element of Tags
          Lower,                \* strings.ToLower on a tag
          Trim                  \* strings.TrimSpace on a tag

ASSUME FilterAssumption ==
    /\ Blank \in Tags
    /\ Lower \in [Tags -> Tags]
    /\ Trim \in [Tags -> Tags]

(* What is listed under discoveryTags and under discoveryIgnoreTags.       *)
TagLists == [discovery : SUBSET Tags, ignore : SUBSET Tags]

(* cleanTags: lower-cased, trimmed, without the blanks.  The order of the  *)
(* list is lost, no caller looks at it.                                    *)
CleanTags(configured) == {Trim[Lower[t]] : t \in configured} \ {Blank}

(* The tag lists as the service handler keeps them.                        *)
Cleaned(lists) == [discovery |-> CleanTags(lists.discovery), ignore |-> CleanTags(lists.ignore)]

(* doesAPIContainAnyMatchingTag: the API's own tags are lower-cased but,   *)
(* unlike the configured ones, never trimmed.                              *)
ContainsAnyMatchingTag(tags, apiTags) ==
    \E apiTag \in apiTags : Lower[apiTag] \in tags

(* shouldDiscoverAPI: endpoint says whether the API has a consumer         *)
(* endpoint; the ignore list wins over the discovery list.                 *)
ShouldDiscover(filter, endpoint, apiTags) ==
    /\ endpoint
    /\ ~ContainsAnyMatchingTag(filter.ignore, apiTags)
    /\ \/ filter.discovery = {}
       \/ ContainsAnyMatchingTag(filter.discovery, apiTags)
=============================================================================

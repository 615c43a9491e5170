--------------------------- MODULE PolicyMapping ---------------------------
(***************************************************************************)
(* What the discovery agent makes of the policies applied to an API: the   *)
(* authentication kinds, the configuration that enters the checksum and    *)
(* the credential request definition offered to consumers                  *)
(* (getApicAuthsAndConfig and getServiceDetail in                          *)
(* pkg/discovery/servicehandler.go).                                       *)
(*                                                                         *)
(* A policy is a record: template is the policy template the code tells    *)
(* apart ("other" stands for every template it ignores), origin is the     *)
(* entry of the configuration that client ID enforcement is inspected for, *)
(* and conf is the rest of the configuration map.                          *)
(***************************************************************************)
EXTENDS Integers, Sequences

Templates == {"oauth2", "basic", "clientId", "other"}
Origins == {"absent", "header", "customExpression", "notString"}
AuthKinds == {"oauth", "basic"}

(* The kind of authentication a policy contributes.                        *)
AuthOf(p) ==
    CASE p.template = "oauth2" -> "oauth"
      [] p.template = "basic" -> "basic"
      [] p.template = "clientId" /\ p.origin # "absent" -> "basic"
      [] OTHER -> "none"

(* One client ID enforcement policy whose credentials come from a custom   *)
(* expression rejects the whole API.                                       *)
Incompatible(ps) ==
    \E i \in DOMAIN ps : /\ ps[i].template = "clientId"
                         /\ ps[i].origin \in {"customExpression", "notString"}

Kinds(ps) == {AuthOf(ps[i]) : i \in DOMAIN ps} \ {"none"}

(* The configuration map: for each kind, what the LAST policy of that kind *)
(* carries (a later assignment to the same key wins).                      *)
Configuration(ps) ==
    [k \in Kinds(ps) |->
        LET last == CHOOSE i \in DOMAIN ps :
                       /\ AuthOf(ps[i]) = k
                       /\ \A j \in DOMAIN ps : AuthOf(ps[j]) = k => j <= i
        IN  [origin |-> ps[last].origin, conf |-> ps[last].conf]]

(* Position of the first policy of kind k: the kinds are kept in this      *)
(* order once duplicates are removed.                                      *)
FirstOf(ps, k) == CHOOSE i \in DOMAIN ps :
                      /\ AuthOf(ps[i]) = k
                      /\ \A j \in DOMAIN ps : AuthOf(ps[j]) = k => i <= j

(* The loop over the kinds overwrites crds each time round, so the kind    *)
(* whose first policy comes last names the only credential request         *)
(* definition; "none" when the API needs no credentials.                   *)
CredentialKind(ps) ==
    IF Kinds(ps) = {} THEN "none"
    ELSE CHOOSE k \in Kinds(ps) : \A l \in Kinds(ps) : FirstOf(ps, l) <= FirstOf(ps, k)
=============================================================================

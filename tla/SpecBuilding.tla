---------------------------- MODULE SpecBuilding ----------------------------
(***************************************************************************)
(* How the discovery agent makes the detail of one API that is not         *)
(* published yet: the policies, the Exchange asset, the choice of its      *)
(* specification file, the download, the parser, the rewriting of the      *)
(* specification and the icon (getServiceDetail and updateSpec in          *)
(* pkg/discovery/servicehandler.go, with GetPolicies and                   *)
(* GetExchangeFileContent in pkg/anypoint/client.go).  DiscoveryPipeline   *)
(* takes these steps as one.                                               *)
(*                                                                         *)
(* A file has a classifier, the name of its main file (possibly ""), and   *)
(* entries: those of the archive in its order, or the file itself.  A      *)
(* content is what the parser makes of it (kind) and whether Exchange      *)
(* converted it from RAML.  A policy is one of PolicyMapping with form,    *)
(* the field its configuration comes in, and conf as the set of scopes it  *)
(* names ({} when it has none).                                            *)
(***************************************************************************)
EXTENDS PolicyMapping

CONSTANTS Assets,        \* the lists of files an Exchange asset may have
          PolicyLists,   \* the policies an API may have in Mulesoft
          Originals,     \* the values of discoverOriginalRaml
          None           \* nothing there (yet)

ContentKinds == {"oas2", "oas3", "raml", "wsdl", "other"}
Content == [kind : ContentKinds, conversion : BOOLEAN]

ASSUME SpecAssumption ==
    /\ \A files \in Assets :
          /\ DOMAIN files \subseteq Nat
          /\ \A i \in DOMAIN files :
                /\ files[i].zip \in BOOLEAN
                /\ 1 \in DOMAIN files[i].entries
                /\ \A e \in DOMAIN files[i].entries : files[i].entries[e].content \in Content
    /\ \A ps \in PolicyLists : DOMAIN ps \subseteq Nat
    /\ Originals \subseteq BOOLEAN

(* How Exchange keeps a document it converted from RAML: as api.json in an *)
(* archive without a main file; no other entry is called so, unless it is  *)
(* the main file (comments in GetExchangeFileContent and                   *)
(* getExchangeAssetSpecFile).                                              *)
ASSUME ConversionAssumption ==
    \A files \in Assets : \A i \in DOMAIN files : \A e \in DOMAIN files[i].entries :
        LET f == files[i]
        IN  /\ f.entries[e].content.conversion =>
                 f.zip /\ f.main = "" /\ f.entries[e].name = "api.json"
            /\ f.zip /\ f.entries[e].name = "api.json" =>
                 f.entries[e].content.conversion \/ f.main = "api.json"

VARIABLES asset, policies, original,    \* what the handling starts from
          pc,
          conf,      \* the configuration of the policies, by kind
          crd,       \* the credential request definition
          file,      \* the file chosen
          raw,       \* its content
          tagged,    \* has the tag "converted-from-raml" been added
          spec,      \* the specification as rewritten
          failed,    \* did the handling end with an error
          made       \* is there a service detail, with spec, crd and tagged

input == <<asset, policies, original>>
vars == <<asset, policies, original, pc, conf, crd, file, raw, tagged, spec, failed, made>>

Init == /\ asset \in Assets
        /\ policies \in PolicyLists
        /\ original \in Originals
        /\ pc = "policies"
        /\ conf = <<>>
        /\ crd = "none"
        /\ file = None /\ raw = None /\ spec = None
        /\ tagged = FALSE /\ failed = FALSE /\ made = FALSE
-----------------------------------------------------------------------------
(* The policies as GetPolicies returns them: a configuration that comes in *)
(* the field configurationData stays behind, the field the code reads is   *)
(* assigned to itself.                                                     *)
Received(ps) ==
    [i \in DOMAIN ps |->
        IF ps[i].form = "configuration" THEN ps[i]
        ELSE [ps[i] EXCEPT !.origin = "absent", !.conf = {}]]

(* The older API answers with an array, which is asked for once more.      *)
ArrayAnswer ==
    /\ pc = "policies"
    /\ pc' = "policiesAgain"
    /\ UNCHANGED <<input, conf, crd, file, raw, tagged, spec, failed, made>>

(* GetPolicies, then getApicAuthsAndConfig and the credential kinds.       *)
GetPolicies ==
    LET ps == Received(policies)
    IN  /\ pc \in {"policies", "policiesAgain"}
        /\ IF Incompatible(ps)
           THEN pc' = "done" /\ failed' = TRUE /\ UNCHANGED <<conf, crd>>
           ELSE /\ pc' = "asset"
                /\ conf' = Configuration(ps)
                /\ crd' = CredentialKind(ps)
                /\ UNCHANGED failed
        /\ UNCHANGED <<input, file, raw, tagged, spec, made>>
-----------------------------------------------------------------------------
specPreference == [c \in {"oas", "fat-oas", "wsdl", "raml", "fat-raml"} |->
    CASE c = "oas" -> 0 [] c = "fat-oas" -> 1 [] c = "wsdl" -> 2
      [] c = "raml" -> 3 [] c = "fat-raml" -> 4]

Known(c) == c \in DOMAIN specPreference
Preference(c) == IF Known(c) THEN specPreference[c] ELSE 10000

(* Mutant of FirstSorted: the files are not sorted.                        *)
FirstListed(files, S) == CHOOSE i \in S : \A j \in S : i <= j

(* The first of the files at the places S once all are sorted; sort.Sort   *)
(* keeps files of one classifier in their order when they are few (twelve).*)
FirstSorted(files, S) ==
    CHOOSE i \in S : \A j \in S :
        \/ Preference(files[i].classifier) < Preference(files[j].classifier)
        \/ Preference(files[i].classifier) = Preference(files[j].classifier) /\ i <= j

(* getExchangeAssetSpecFile, as the set of the place it chooses: the first *)
(* sorted file if it is of a supported classifier; with                    *)
(* discoverOriginalRaml the first of a known classifier that has a main    *)
(* file.                                                                   *)
SpecFiles(files, orig) ==
    LET fit == IF orig THEN {i \in DOMAIN files : Known(files[i].classifier) /\ files[i].main # ""}
               ELSE DOMAIN files
    IN  IF fit = {} THEN {}
        ELSE {i \in {FirstSorted(files, fit)} :
                orig \/ files[i].classifier \in {"oas", "fat-oas", "wsdl"}}

(* Mutant of GetExchangeAsset: an asset without a supported file is not    *)
(* given up.                                                               *)
NoFileIgnored ==
    /\ pc = "asset"
    /\ pc' = "content"
    /\ file' \in IF SpecFiles(asset, original) = {} THEN {None}
                 ELSE {asset[i] : i \in SpecFiles(asset, original)}
    /\ UNCHANGED <<input, conf, crd, raw, tagged, spec, failed, made>>

(* Without a supported file there is no detail and no error.               *)
GetExchangeAsset ==
    /\ pc = "asset"
    /\ \/ SpecFiles(asset, original) = {} /\ pc' = "done" /\ UNCHANGED file
       \/ /\ pc' = "content"
          /\ \E i \in SpecFiles(asset, original) : file' = asset[i]
    /\ UNCHANGED <<input, conf, crd, raw, tagged, spec, failed, made>>
-----------------------------------------------------------------------------
(* The entry GetExchangeFileContent reads: the first one named as the main *)
(* file or api.json.                                                       *)
Wanted(f) == {e \in DOMAIN f.entries :
                 /\ f.entries[e].name \in {f.main, "api.json"}
                 /\ \A d \in DOMAIN f.entries :
                       f.entries[d].name \in {f.main, "api.json"} => e <= d}

(* The bytes of an archive with neither are taken for the specification.   *)
Archive == [kind |-> "other", conversion |-> FALSE]

(* Mutant of GetExchangeFileContent: a converted document is returned as   *)
(* any other.                                                              *)
ConversionUnnoticed ==
    /\ pc = "content"
    /\ raw' = IF ~file.zip THEN file.entries[1].content
              ELSE IF Wanted(file) = {} THEN Archive
              ELSE file.entries[CHOOSE e \in Wanted(file) : TRUE].content
    /\ pc' = "parse"
    /\ UNCHANGED <<input, conf, crd, file, tagged, spec, failed, made>>

(* GetExchangeFileContent: an api.json counts as converted from RAML       *)
(* unless the original is asked for, and is tagged so.                     *)
GetExchangeFileContent ==
    /\ pc = "content"
    /\ \/ ~file.zip /\ raw' = file.entries[1].content /\ UNCHANGED tagged
       \/ file.zip /\ Wanted(file) = {} /\ raw' = Archive /\ UNCHANGED tagged
       \/ /\ file.zip
          /\ \E e \in Wanted(file) :
                /\ raw' = file.entries[e].content
                /\ tagged' = (~original /\ file.entries[e].name = "api.json")
    /\ pc' = "parse"
    /\ UNCHANGED <<input, conf, crd, file, spec, failed, made>>
-----------------------------------------------------------------------------
(* The parser of the SDK tells the kind from the content; what it does not *)
(* recognise is an error or passes as it is.                               *)
Parse ==
    /\ pc = "parse"
    /\ pc' = "rewrite"
    /\ UNCHANGED <<input, conf, crd, file, raw, tagged, spec, failed, made>>

ParseFails ==
    /\ pc = "parse"
    /\ raw.kind = "other"
    /\ pc' = "done" /\ failed' = TRUE
    /\ UNCHANGED <<input, conf, crd, file, raw, tagged, spec, made>>

(* The scopes a requirement names.  A requirement of basic authentication  *)
(* in an OAS3 document names the empty scope.                              *)
Required(kind, auth, cfg) ==
    CASE auth = "oauth" -> cfg.conf
      [] auth = "basic" -> IF kind = "oas3" THEN {""} ELSE {}

(* setOAS2policies, setOAS3policies, setRamlHostAndAuth: the security of   *)
(* the document is replaced by a scheme and a requirement for each entry   *)
(* of the configuration, in no order, each requirement an alternative.     *)
(* Only OAuth schemes of OAS define scopes.                                *)
SetPolicies(kind, cfg) ==
    [kind |-> kind,
     rewritten |-> TRUE,
     schemes |-> [a \in DOMAIN cfg |->
                     IF a = "oauth" /\ kind # "raml" THEN cfg[a].conf ELSE {}],
     security |-> {[scheme |-> a, scopes |-> Required(kind, a, cfg[a])] : a \in DOMAIN cfg}]

(* Mutant of UpdateSpec: the security of a RAML document is left alone.    *)
UpdateSpecNoRaml ==
    /\ pc = "rewrite"
    /\ spec' = IF raw.kind \in {"oas2", "oas3"} THEN SetPolicies(raw.kind, conf)
               ELSE [kind |-> raw.kind, rewritten |-> TRUE, schemes |-> <<>>, security |-> {}]
    /\ pc' = "icon"
    /\ UNCHANGED <<input, conf, crd, file, raw, tagged, failed, made>>

(* updateSpec: only the kinds the agent can rewrite are.                   *)
UpdateSpec ==
    /\ pc = "rewrite"
    /\ spec' = IF raw.kind \in {"oas2", "oas3", "raml"} THEN SetPolicies(raw.kind, conf)
               ELSE [kind |-> raw.kind, rewritten |-> FALSE, schemes |-> <<>>, security |-> {}]
    /\ pc' = "icon"
    /\ UNCHANGED <<input, conf, crd, file, raw, tagged, failed, made>>

GetExchangeAssetIcon ==
    /\ pc = "icon"
    /\ pc' = "done" /\ made' = TRUE
    /\ UNCHANGED <<input, conf, crd, file, raw, tagged, spec, failed>>

(* Every call may fail, and so may the second reading of a specification   *)
(* in updateSpec: the error is returned, whatever was done so far.         *)
CallFails ==
    /\ pc \in {"policies", "policiesAgain", "asset", "content", "rewrite", "icon"}
    /\ pc = "rewrite" => raw.kind \in {"oas2", "oas3"}
    /\ pc' = "done" /\ failed' = TRUE
    /\ UNCHANGED <<input, conf, crd, file, raw, tagged, spec, made>>

Next == \/ ArrayAnswer \/ GetPolicies \/ GetExchangeAsset \/ GetExchangeFileContent
        \/ Parse \/ ParseFails \/ UpdateSpec \/ GetExchangeAssetIcon \/ CallFails

Spec == Init /\ [][Next]_vars
-----------------------------------------------------------------------------
(* Type invariant of the handling of one API.                              *)
TypeOK ==
    /\ asset \in Assets /\ policies \in PolicyLists /\ original \in Originals
    /\ pc \in {"policies", "policiesAgain", "asset", "content", "parse", "rewrite",
               "icon", "done"}
    /\ DOMAIN conf \subseteq AuthKinds
    /\ crd \in AuthKinds \cup {"none"}
    /\ pc = "content" => \E i \in DOMAIN asset : file = asset[i]
    /\ pc \in {"parse", "rewrite", "icon"} => raw \in Content
    /\ tagged \in BOOLEAN /\ failed \in BOOLEAN
    /\ made \in BOOLEAN
    /\ made => pc = "done" /\ ~failed

(* A file the agent can publish: of a supported classifier or, when the    *)
(* original is asked for, of any known one with a main file.               *)
Supported(f) == IF original THEN Known(f.classifier) /\ f.main # ""
                ELSE f.classifier \in {"oas", "fat-oas", "wsdl"}

(* An asset with a supported file never goes unpublished without an error, *)
(* and what is published is of the most preferred classifier there is,     *)
(* wherever Exchange lists it: a generated or unsupported file in front    *)
(* does not hide it.                                                       *)
BestIsDelivered ==
    pc = "done" /\ ~failed =>
        IF \E i \in DOMAIN asset : Supported(asset[i])
        THEN /\ made
             /\ Supported(file)
             /\ \A i \in DOMAIN asset : Supported(asset[i]) =>
                   Preference(file.classifier) <= Preference(asset[i].classifier)
        ELSE ~made

(* What Exchange converted from RAML carries the tag that says so, and is  *)
(* not published at all when the original is asked for; the tag is wrong   *)
(* only for a document whose own main file is called api.json.             *)
ConversionIsTold ==
    made =>
        /\ raw.conversion => tagged /\ ~original
        /\ tagged => raw.conversion \/ file.main = "api.json"

(* The credential request definition and the specification come from the   *)
(* same policies by different ways and have to agree: a consumer that gets *)
(* the credential offered meets an alternative of the security published,  *)
(* an API that offers none demands none, and no requirement of the         *)
(* document names a scheme, or a scope of an OAuth scheme of OAS, that is  *)
(* not defined.  What operations demand of their own is not looked at.     *)
CredentialFits ==
    made /\ spec.rewritten =>
        /\ IF crd = "none" THEN spec.security = {}
           ELSE \E r \in spec.security : r.scheme = crd
        /\ \A r \in spec.security :
              /\ r.scheme \in DOMAIN spec.schemes
              /\ r.scheme = "oauth" /\ spec.kind # "raml" =>
                    r.scopes = spec.schemes[r.scheme]
=============================================================================

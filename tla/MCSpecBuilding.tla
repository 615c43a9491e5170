--------------------------- MODULE MCSpecBuilding ---------------------------
(* Instances of SpecBuilding for TLC.                                      *)
EXTENDS SpecBuilding

Of(kind) == [kind |-> kind, conversion |-> FALSE]
Entry(name, content) == [name |-> name, content |-> content]
File(classifier, main, zip, entries) ==
    [classifier |-> classifier, main |-> main, zip |-> zip, entries |-> entries]

(* What Exchange keeps of an API: a document in an archive with other      *)
(* files, one whose main file is api.json, one by itself, the conversion   *)
(* of a RAML document (without a main file), RAML, WSDL, a file the agent  *)
(* does not know, and an archive in which nothing has the expected name.   *)
Files ==
    {File("oas", "main", TRUE, <<Entry("lib", Of("other")), Entry("main", Of("oas3"))>>),
     File("oas", "api.json", TRUE, <<Entry("api.json", Of("oas2"))>>),
     File("fat-oas", "main", FALSE, <<Entry("main", Of("oas2"))>>),
     File("fat-oas", "", TRUE, <<Entry("api.json", [kind |-> "oas3", conversion |-> TRUE])>>),
     File("raml", "main", TRUE, <<Entry("lib", Of("raml")), Entry("main", Of("raml"))>>),
     File("wsdl", "", FALSE, <<Entry("main", Of("wsdl"))>>),
     File("custom", "main", TRUE, <<Entry("main", Of("other"))>>),
     File("fat-raml", "main", TRUE, <<Entry("lib", Of("raml"))>>)}

AssetsUpTo3 == UNION {[1..n -> Files] : n \in 0..3}

Policy(template, origin, scopes, form) ==
    [template |-> template, origin |-> origin, conf |-> scopes, form |-> form]

OAuth == Policy("oauth2", "absent", {"read", "write"}, "configuration")
OAuthOpen == Policy("oauth2", "absent", {}, "configuration")
Basic == Policy("basic", "absent", {}, "configuration")
ClientId == Policy("clientId", "header", {}, "configuration")
Custom == Policy("clientId", "customExpression", {}, "configuration")
Other == Policy("other", "absent", {}, "configuration")
ClientIdData == Policy("clientId", "header", {}, "configurationData")

MCPolicyLists == {<<>>, <<Other>>, <<OAuth>>, <<OAuthOpen, Other>>, <<ClientId>>, <<Custom>>,
                  <<Basic, OAuth>>, <<OAuth, Basic>>, <<OAuth, OAuthOpen, ClientId>>,
                  <<ClientIdData>>, <<ClientIdData, OAuth>>}
=============================================================================

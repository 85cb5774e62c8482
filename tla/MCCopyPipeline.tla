--------------------------- MODULE MCCopyPipeline ---------------------------
EXTENDS CopyPipeline

\* Members of events.
Ip(u, v)      == [Attribute EXCEPT !.uuid = u, !.value = v]
File(u, v)    == [Attribute EXCEPT !.uuid = u, !.value = v, !.type = "file", !.data = 2]
Tagged(a, ts) == [a EXCEPT !.tags = ts]
Obj(u, as)    == [Object EXCEPT !.uuid = u, !.attributes = as]
Ref(u, t)     == [uuid |-> u, target |-> t, kind |-> "uses"]
Seen(u, a)    == [uuid |-> u, attribute |-> a]
Offered       == [uuid |-> Null, text |-> "p"]
Galaxy(u, cs) == [name |-> "techniques", uuid |-> u, clusters |-> cs]

With(attributes, objects) == [Blank EXCEPT !.attributes = attributes, !.objects = objects]

\* A policy that redacts, over attributes whose values come and go: the same
\* UUID on other content, loose or in an object.
Texts ==
    LET loose == {{}, {Ip("a1", "plain")}, {Ip("a1", "secret"), Ip("a2", "secret")},
                  {File("a1", "secret"), Ip("a2", "plain")}}
        kept  == {{}, {Obj("o1", {Ip("a3", "secret")})},
                  {Obj("o1", {Ip("a3", "plain"), [File("a4", "plain") EXCEPT !.comment = "secret",
                                                                          !.data = 1]})},
                  {Obj("o2", {Ip("a3", "secret"), File("a5", "plain")})}}
        events == {With(a, o) : a \in loose, o \in kept}
    IN  [name |-> "texts", sources |-> events, destinations |-> events,
         specs |-> {NoRules, [NoRules EXCEPT !.redact = {"secret"}],
                    [NoRules EXCEPT !.redact = {"secret"}, !.removeComments = TRUE,
                                    !.maxAttachment = 1]}]

\* Attributes that move between the event and its objects, with references and
\* sightings of them; types are removed.
Places ==
    LET ref(t) == {Ref("r1", t)}
        events == {With({Ip("a1", "plain")}, {}),
                   With({}, {[Obj("o1", {Ip("a1", "plain")}) EXCEPT !.references = ref("a1")]}),
                   With({Ip("a1", "plain"), File("a2", "plain")},
                        {[Obj("o1", {Ip("a3", "other")}) EXCEPT !.references = ref("a2"),
                              !.comment = "note", !.distribution = 2]}),
                   With({Ip("a2", "other")},
                        {Obj("o1", {Ip("a1", "plain")}),
                         [Obj("o2", {Ip("a3", "other")}) EXCEPT !.references = ref("o1")]})}
        seen(e) == [e EXCEPT !.sightings = SetToBag({Seen("s1", "a1")})]
        twice(e) == [e EXCEPT !.proposals = (Offered :> 2), !.sightings = SetToBag({Seen("s2", "a2")})]
        all == events \cup {seen(e) : e \in events} \cup {twice(e) : e \in events}
    IN  [name |-> "places", sources |-> all, destinations |-> all,
         specs |-> {NoRules, [NoRules EXCEPT !.removeTypes = {"file"}]}]

\* Markings in two spellings, on events and attributes.
Markings ==
    LET tags == {Tag("red"), Shout("red"), Tag("amber"), Tag("green")}
        some == {ts \in SUBSET tags : Cardinality(ts) <= 2 /\ Cardinality(ts) = Cardinality(Folded(ts))}
        events == {[With({Tagged(Ip("a1", "plain"), inner)}, {}) EXCEPT !.tags = ts] :
                        ts \in some, inner \in {{}, {Tag("amber")}, {Tag("red"), Tag("green")}}}
        chain == (Tag("amber") :> Tag("green")) @@ (Tag("green") :> Tag("clear"))
    IN  [name |-> "markings", sources |-> events, destinations |-> {Blank},
         specs |-> {[NoRules EXCEPT !.renameTags = chain],
                    [NoRules EXCEPT !.renameTags = (Tag("red") :> Shout("amber")),
                                    !.removeTags = {"green"}, !.rejectIfTags = {"clear"}],
                    [NoRules EXCEPT !.renameTags = (Tag("amber") :> Tag("green")),
                                    !.removeTags = {"green"}, !.requiredTags = {"seen"},
                                    !.addTags = {Tag("seen"), Shout("seen"), Tag("red")}],
                    [NoRules EXCEPT !.renameTags = (Shout("red") :> Tag("amber")) @@ chain,
                                    !.rejectIfTags = {"red"}, !.requiredTags = {"green"}]}]

\* Audiences, types, organisations and flags.
Audiences ==
    LET levels == {0, 3, 4, 5, NoLevel}
        attribute(l, s) == [Ip("a1", "plain") EXCEPT !.distribution = l, !.sharing = s]
        events == {[With({attribute(l, s)}, {[Obj("o1", {File("a2", "plain")}) EXCEPT !.distribution = k]})
                        EXCEPT !.distribution = l] : l \in levels, k \in levels, s \in {Null, "g"}}
    IN  [name |-> "audiences", sources |-> events,
         destinations |-> {[With({attribute(1, Null)}, {}) EXCEPT !.org = "ours"]},
         specs |-> {[NoRules EXCEPT !.maximum = 1, !.organisations = ("org" :> "ours"),
                                    !.groups = ("g" :> "h")],
                    [NoRules EXCEPT !.maximum = 0, !.rejectTypes = {"file"},
                                    !.setPublished = {TRUE}, !.setToIds = {TRUE}],
                    [NoRules EXCEPT !.rejectIfTypes = {"file"}],
                    [NoRules EXCEPT !.allowedObjects = {"url"}]}]

\* Galaxies that share a name, and clusters that move between them.
Clusters ==
    LET events == {[With({}, {}) EXCEPT !.galaxies = gs, !.tags = ts] :
                        gs \in {{}, {Galaxy("g1", {"c"})}, {Galaxy("g1", {"c"}), Galaxy("g2", {"d"})},
                                {Galaxy("g1", {"d"}), Galaxy("g2", {"c"})}},
                        ts \in {{}, {Tag("red")}, {Shout("red")}}}
    IN  [name |-> "clusters", sources |-> events, destinations |-> events, specs |-> {NoRules}]

MCKnown == {"e", "a1", "a2", "a3", "a4", "a5", "o1", "o2", "r1", "s1", "s2"}
MCCopied == [p \in (1..MaxCopies) \X (MCKnown \cup {Null}) |-> "copy" \o ToString(p[1]) \o "-" \o p[2]]
MCGiven == {"given" \o ToString(k) : k \in 1..6}

MCCases == {Texts, Places, Markings, Audiences, Clusters}
=============================================================================

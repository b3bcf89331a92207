--------------------------- MODULE MCHostReconcile ---------------------------
(* One host and one question at a time for HostReconcile. *)
EXTENDS HostReconcile, TLC

CONSTANTS d, s, c, base, site

\* c is a cluster translation with the name of s: their copies share a name.
MCTranslations == {d, s, c}
MCName == (d :> base) @@ (s :> site) @@ (c :> site)
MCByName == <<s, c>>

Thing(state, version) ==
  [state |-> state, version |-> version, attached |-> FALSE, wording |-> FALSE]

Missing == Thing("missing", 0)
Usable == Thing("ready", 1)

Plain == [announcement |-> FALSE, consent |-> FALSE, theme |-> FALSE,
          translationRefs |-> <<>>, selectorParses |-> TRUE]

\* Everything is there and stays as it is.
Calm ==
  [start |-> Plain, specs |-> {Plain},
   objects |-> [o \in Objects |-> Usable], may |-> [o \in Objects |-> {}],
   deployments |-> {"available"}, readiness |-> {}]

Announced ==
  LET announcing == [Plain EXCEPT !.announcement = TRUE]
  IN [Calm EXCEPT
        !.start = announcing, !.specs = {Plain, announcing},
        !.may["announcement"] = {Missing, Thing("unready", 2), Thing("mistyped", 2)},
        !.may["defaultConsent"] = {Missing}]

Consented ==
  LET own == [Plain EXCEPT !.consent = TRUE]
  IN [Calm EXCEPT
        !.specs = {Plain, own},
        !.may["consent"] = {Missing, Thing("unready", 1), Thing("mistyped", 2)},
        !.may["defaultConsent"] = {Missing, Thing("unready", 2), Thing("mistyped", 2)}]

\* s attaches itself with consent wording; c is what the host may name instead.
Translated ==
  LET named(t) == [Plain EXCEPT !.translationRefs = <<t>>]
      attached == [Usable EXCEPT !.attached = TRUE, !.wording = TRUE]
  IN [Calm EXCEPT
        !.specs = {Plain, named(s), named(c)},
        !.objects[s] = attached,
        !.may[s] = {Usable, [attached EXCEPT !.version = 2],
                    [attached EXCEPT !.state = "unready"]},
        !.may[c] = {Missing}, !.may[d] = {Thing("unready", 1)}]

Themes ==
  LET themed == [Plain EXCEPT !.theme = TRUE]
  IN [Calm EXCEPT
        !.start = themed,
        !.specs = {themed, [themed EXCEPT !.selectorParses = FALSE]},
        !.may["theme"] = {Missing, Thing("unready", 2)}]

Deployed ==
  [Calm EXCEPT !.deployments = {"absent", "unavailable", "available"},
               !.readiness = {"Unknown", "True", "False"}]

AllWorlds == {Announced, Consented, Translated, Themes, Deployed}
JustAnnounced == {Announced}
=============================================================================

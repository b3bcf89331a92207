-------------------------- MODULE MCLeafReconcilers --------------------------
(* Chains of at most three resources for LeafReconcilers. *)
EXTENDS LeafReconcilers, TLC

CONSTANTS a, b, c, cluster, n1, n2, none

Nothing == {<<>>}
To(field, o) == {field :> o}

\* A world from the kinds, namespaces and possible references of its objects.
World(kinds, namespaces, specs, start) ==
  [kind |-> kinds, namespace |-> namespaces, specs |-> specs,
   start |-> [o \in start |-> CHOOSE refs \in specs[o] : TRUE],
   packaged |-> {}, unreliable |-> {}, secret |-> none, archetypes |-> <<>>]

All(x, y, z) == a :> x @@ b :> y @@ c :> z

\* An app with its own Secret, or the default one, and a page showing the app.
Credentials ==
  [World(All("Secret", "App", "UtilityPage"), All(n1, n1, n1),
         All(Nothing, To("SecretRef", a), To("AppRef", b)), {a, b, c})
   EXCEPT !.unreliable = {b}]

Fallback ==
  [World(All("Secret", "ScriptLibrary", "Theme"), All(n1, n1, n1),
         All(Nothing, Nothing, To("ScriptLibraryRef", b)), {b, c})
   EXCEPT !.packaged = {b}, !.unreliable = {b}, !.secret = a]

Headed ==
  World(All("ScriptLibrary", "PageHeader", "PageArchetype"),
        All(cluster, n1, n1),
        All(Nothing, To("ScriptLibraryRef", a), To("HeaderRef", b)),
        {a, b, c})

Footed ==
  World(All("ScriptLibrary", "PageFooter", "UtilityPage"),
        All(cluster, cluster, n1),
        All(Nothing, To("ScriptLibraryRef", a) \cup Nothing,
            To("FooterRef", b)),
        {b, c})

\* The page inherits a navigation of its archetype, named or the default one, and
\* may add its own.
Framed ==
  World(All("PageNavigation", "PageArchetype", "UtilityPage"),
        All(cluster, cluster, n1),
        All(Nothing, To("main", a), To("PageArchetypeRef", b)),
        {a, b, c})

Plain ==
  [World(All("PageNavigation", "PageArchetype", "UtilityPage"),
         All(cluster, cluster, n1),
         All(Nothing, To("main", a), To("side", a)),
         {a, b, c})
   EXCEPT !.archetypes = <<b>>]

\* A navigation of another namespace, and an archetype that may not name it.
Abroad ==
  World(All("PageNavigation", "PageArchetype", "UtilityPage"),
        All(n2, cluster, n1),
        All(Nothing, To("main", a),
            To("side", a)),
        {a, b, c})

\* Two navigations, of which one exists at first.
Menus ==
  World(All("PageNavigation", "PageNavigation", "PageArchetype"),
        All(n1, n1, n1),
        All(Nothing, Nothing, {[main |-> a, side |-> b]}), {a, c})

\* An entry without content, or with something else than an app.
Blank ==
  [World(All("App", "Translation", "UtilityPage"), All(n1, n1, n1),
         All(Nothing, Nothing,
             To("AppRef", none) \cup To("AppRef", a) \cup To("AppRef", b)),
         {a, b, c})
   EXCEPT !.start[c] = "AppRef" :> none]

Lone ==
  World(All("Translation", "Theme", "PageFooter"), All(n1, cluster, n2),
        All(Nothing, Nothing, Nothing), {a})

MCWorlds == {Credentials, Fallback, Headed, Footed, Framed, Plain, Abroad, Menus,
             Blank, Lone}
==============================================================================

----------------------------- MODULE MCModules -----------------------------
(***************************************************************************)
(* Small sessions with imports: files a, lib/b and b, in two directories,  *)
(* and two lines.                                                          *)
(***************************************************************************)
EXTENDS Modules

A == <<"a">>
LibB == <<"lib", "b">>
B == <<"b">>

Session(a, libb, b, lines) ==
  [texts |-> (A :> a) @@ (LibB :> libb) @@ (B :> b)
             @@ [u \in {<<"1">>, <<"2">>} |-> lines[IF u = <<"1">> THEN 1 ELSE 2]],
   inputs |-> <<<<"1">>, <<"2">>>>]

Y == Let("y")
Z == Let("z")

ImportA == Import(0, <<"a">>)
ImportB == Import(0, <<"b">>)
ImportLib == Import(0, <<"lib", "b">>)
Above(name) == Import(1, <<name>>)

\* Modules that import each other, up and down the directories, with variables of one
\* name or of names of their own.
Nests ==
  { Session(<<s, Let(u)>>, <<t, Y>>, <<r, Let(v)>>,
            <<<<i, Member("a", u)>>, <<j, Member("b", v)>>>>) :
      u \in {"x", "y"}, v \in {"w", "y"}, s \in {Z, Late, ImportB, ImportLib}, t \in {Z, Late, Above("a"), Above("b"), ImportB},
      r \in {Z, ImportA}, i, j \in {ImportA, ImportB, ImportLib} }

\* Lines of several imports and errors.
Lines ==
  { Session(<<Y>>, lib, b, <<<<i, j, k>>, <<l, Member("b", "y")>>>>) :
      lib, b \in {<<Y>>, <<Wrong, Y>>, <<Type("y")>>, <<Type("y"), Z>>},
      i, j, k \in {ImportA, ImportB, ImportLib, Wrong, Late, Member("b", "y")},
      l \in {ImportB, ImportLib, Wrong} }

\* Modules that use what they import, imported again.
Again ==
  { Session(<<s, Member("b", "y"), Let(u)>>, <<t, Y>>, <<r, Y>>,
            <<<<i, j>>, <<k, Member("a", u)>>>>) :
      u \in {"x", "y"}, s \in {ImportB, ImportLib}, t \in {Z, ImportB, Above("b")}, r \in {Z, ImportA},
      i, j, k \in {ImportA, ImportB, ImportLib} }

AllSessions == Nests \cup Lines \cup Again

=============================================================================

---------------------------- MODULE MCMethodHook ----------------------------
(* The hooks of Java methods, and the build, on small instances.             *)
EXTENDS MethodHook

M(jni, object, stub, static) == [jni |-> jni, object |-> object, stub |-> stub, static |-> static]
MCTarget == <<M(FALSE, TRUE, TRUE, FALSE), M(TRUE, TRUE, FALSE, TRUE), M(TRUE, FALSE, TRUE, FALSE)>>
MCArtMethods == {MCTarget[i] : i \in 1..3}

P(type, array) == [type |-> type, array |-> array, length |-> IF type = "L" THEN 18 ELSE 1]
Long(n) == [P("L", 1) EXCEPT !.length = n]
Params == {P("I", 0), P("J", 0), P("L", 0), P("B", 1), P("L", 1)}
Sigs == UNION {[1..n -> Params] : n \in 0..3} \cup [1..4 -> {P("I", 0), P("J", 0)}]
Many(n, c) == [k \in 1..n |-> IF k % c = 0 THEN P("I", 0) ELSE P("D", 0)]
Dvm(sig, ret, static, native) == [sig |-> sig, ret |-> ret, static |-> static, native |-> native, class |-> "system"]
MCDvmMethods ==
  {Dvm(s, "L", FALSE, FALSE) : s \in Sigs} \cup {Dvm(Many(n, c), "V", TRUE, TRUE) : n \in 7..14, c \in 2..4}
    \cup {Dvm(<<P("L", 2), P("Z", 0)>>, r, TRUE, TRUE) : r \in {"V", "F", "D", "J", "Z", "C", "S", "I"}}
    \cup {Dvm(<<Long(n)>>, "V", TRUE, FALSE) : n \in {126, 127}}
    \cup {[Dvm(<<>>, "V", FALSE, n) EXCEPT !.class = c] : c \in {"loader", "missing"}, n \in BOOLEAN}

\* A directory and jars of one name in two places, two of them in one, one with a
\* class in two versions, an archive, a jar with an entry twice; and a project whose
\* libs are all inputs.
Meth(n, body) == [name |-> n, body |-> body]
Activity(n, c) == [name |-> n, class |-> c, methods |-> <<Meth("onCreate", <<"op", "return">>)>>]
Support == [name |-> FragmentActivity, class |-> FragmentActivityClass,
            methods |-> <<Meth("onCreate", <<"op", "return", "op", "return">>), Meth("onCreate", <<>>),
                          Meth("onDestroy", <<"op", "return">>), Meth("onStart", <<"return">>)>>]
Item(kind, name, dir, suffix, entries) ==
  [kind |-> kind, name |-> name, path |-> <<dir, name \o suffix>>, suffix |-> suffix, entries |-> entries]
MCProjects ==
  LET main == Item("directory", "main", "app", "", <<Activity("FragmentActivity.class", FragmentActivityClass), Activity("MainActivity.class", "app/MainActivity")>>)
      core == Item("jar", "core", "cache", ".jar",
                   <<Activity("META-INF/versions/9/" \o FragmentActivity, FragmentActivityClass), Support>>)
      copy == Item("jar", "core", "libs", ".jar", <<Activity("com/Core.class", "com/Core")>>)
      more == Item("jar", "more", "libs", ".jar", <<Support>>)
  IN {[items |-> <<main, core, copy, more, Item("jar", "old", "libs", ".aar", <<Support>>)>>, globs |-> {}],
      [items |-> <<main, copy, more>>, globs |-> {"libs"}],
      [items |-> <<core, Item("jar", "twice", "libs", ".jar", <<Support, Support>>)>>, globs |-> {}]}

\* For the builds alone.
MCFewMethods == {Dvm(<<>>, "V", TRUE, FALSE)}
=============================================================================

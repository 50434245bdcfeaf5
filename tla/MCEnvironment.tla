--------------------------- MODULE MCEnvironment ----------------------------
(* Small values for Environment's constants: application variables in map   *)
(* order, two of them named like another one with the prefix, and all lists *)
(* of up to three entries over a few names.                                 *)
EXTENDS Environment

CONSTANTS one, two

MCVariables == <<"a", "spin_variable_a", "spin_variable_x", "x">>
WithTmpdir == <<"a", "tmpdir", "x">>

MCOwn ==
    [v \in {"a", "spin_variable_a", "spin_variable_x", "tmpdir", "x"} |->
        CASE v = "a" -> "A"
          [] v = "spin_variable_a" -> "SPIN_VARIABLE_A"
          [] v = "spin_variable_x" -> "SPIN_VARIABLE_X"
          [] v = "tmpdir" -> "TMPDIR"
          [] v = "x" -> "X"]

MCPrefixed ==
    [v \in {"a", "spin_variable_a", "spin_variable_x", "tmpdir", "x"} |->
        CASE v = "a" -> "SPIN_VARIABLE_A"
          [] v = "spin_variable_a" -> "SPIN_VARIABLE_SPIN_VARIABLE_A"
          [] v = "spin_variable_x" -> "SPIN_VARIABLE_SPIN_VARIABLE_X"
          [] v = "tmpdir" -> "SPIN_VARIABLE_TMPDIR"
          [] v = "x" -> "SPIN_VARIABLE_X"]

MCKey ==
    {"A", "X", "SPIN_VARIABLE_A", "SPIN_VARIABLE_X", "SPIN_VARIABLE_SPIN_VARIABLE_A",
     "SPIN_VARIABLE_SPIN_VARIABLE_X", "SPIN_VARIABLE_TMPDIR"} \cup ShimKeys \cup OptionKeys

MCValue == {one, two}
MCValid == {one}
MCTypes == {"http", "redis"}

Entries ==
    {<<"A", one>>, <<"A", two>>, <<"X", one>>, <<"SPIN_VARIABLE_A", two>>,
     <<"SPIN_VARIABLE_X", two>>, <<"TMPDIR", one>>, <<"XDG_CACHE_HOME", two>>, <<NoName, one>>,
     <<"SPIN_HTTP_LISTEN_ADDR", one>>, <<"SPIN_HTTP_LISTEN_ADDR", two>>,
     <<"SPIN_MAX_INSTANCE_MEMORY", one>>, <<"SPIN_MAX_INSTANCE_MEMORY", two>>,
     <<"HOSTNAME", two>>}

MCContainers == UNION {[1..n -> Entries] : n \in 0..3}
FewContainers == {<<>>}
=============================================================================

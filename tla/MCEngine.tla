------------------------------ MODULE MCEngine ------------------------------
(* Small values for Engine's constants: two components and a name no app    *)
(* has, three trigger types the shim runs and one it does not, and apps     *)
(* chosen so that retaining, chaining and unsupported triggers all matter.  *)
EXTENDS Engine

CONSTANTS a, b, ghost

MCName == {a, b, ghost}
MCSupported == {"http", "redis", "command"}
MCType == MCSupported \cup {"kinesis"}

On(type, component) == [type |-> type, component |-> component]

Locked(components, triggers, chains) ==
    [components |-> components, triggers |-> triggers, chains |-> chains]

MCApps ==
    {Locked({a}, {}, {}),
     Locked({a, b}, {On("http", a), On("redis", b)}, {}),
     Locked({a, b}, {On("http", a), On("http", b)}, {<<a, b>>}),
     Locked({a, b}, {On("http", a), On("redis", b), On("command", b)}, {<<a, b>>}),
     Locked({a, b}, {On("http", a), On("kinesis", b)}, {}),
     Locked({a, b}, {On("http", a)}, {<<a, ghost>>})}

MCRetains == SUBSET MCName \cup {NotSet}
=============================================================================

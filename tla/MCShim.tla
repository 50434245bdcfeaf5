------------------------------- MODULE MCShim --------------------------------
(* Small values for Shim's constants: four components, two of one file and  *)
(* one that does not compile, and an image for each way in which the disk   *)
(* can differ from what the engine takes it for.                            *)
EXTENDS Shim

CONSTANTS a, b, c, d, alone, both, pair, mixed, w1, w2, bad

MCName == {a, b, c, d}
MCSupported == {"http", "redis"}
MCDigest == {alone, both, pair, mixed, w1, w2, bad}

MCWasmOf == [n \in MCName |-> CASE n = c -> bad [] n = d -> w2 [] OTHER -> w1]

On(type, component) == [type |-> type, component |-> component]

Locked(triggers) ==
    [components |-> {t.component : t \in triggers}, triggers |-> triggers, chains |-> {}]

\* A package and a manifest hold component a alone.
MCAppOf ==
    [file \in MCDigest \cup {None} |->
        CASE file = both  -> Locked({On("http", a), On("redis", b)})
          [] file = pair  -> Locked({On("http", a), On("redis", d)})
          [] file = mixed -> Locked({On("http", a), On("redis", c)})
          [] OTHER     -> Locked({On("http", a)})]

L(media, digest) == [media |-> media, digest |-> digest]
Oci(layer_list) == [kind |-> "oci", layers |-> layer_list]

MCImages ==
    {Oci(<<L("config", alone), L("wasm", w1), L("config", both),
           L("other", both)>>),
     Oci(<<L("wasm", w1), L("wasm", w2), L("config", pair)>>),
     Oci(<<L("config", mixed), L("wasm", w1), L("wasm", bad)>>),
     Oci(<<L("wkg", w1)>>),
     [kind |-> "file", layers |-> <<>>]}

MCRetains == {NotSet, {a}}
MCNothing == [file \in MCDigest |-> {}]
MCBroken == {bad}
MCHash == {"v1", "v2"}
=============================================================================

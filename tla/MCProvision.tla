---------------------------- MODULE MCProvision -----------------------------
(* Small values for Provision's constants: two shim builds and one image    *)
(* per way an image is made, complete and not.                              *)
EXTENDS Provision

CONSTANTS app, app2, app3, w1, w2, bad, asset, tar, packed

MCDigest == {app, app2, app3, w1, w2, bad, asset, tar, packed}
MCBroken == {bad}

L(media, digest) == [media |-> media, digest |-> digest]
Oci(layer_list) == [kind |-> "oci", layers |-> layer_list]

MCWants ==
    [d \in MCDigest |->
        CASE d = app  -> [wasm |-> {w1, w2}, data |-> {asset}]
          [] d = app2 -> [wasm |-> {w1}, data |-> {packed}]
          [] d = app3 -> [wasm |-> {w1, w2}, data |-> {}]
          [] OTHER    -> [wasm |-> {}, data |-> {}]]

MCPacked == [d \in MCDigest |-> IF d = tar THEN {packed} ELSE {}]

MCImages ==
    {Oci(<<L("data", asset), L("wasm", w1), L("wasm", w2), L("config", app)>>),
     Oci(<<L("config", app2), L("other", asset), L("archive", tar), L("wasm", w1)>>),
     Oci(<<L("config", app2), L("config", app), L("wasm", w1), L("wasm", w2)>>),
     Oci(<<L("wasm", w1), L("wasm", bad), L("archive", tar), L("config", app2)>>),
     Oci(<<L("wasm", w1), L("wasm", w2), L("wasm", bad), L("config", app3)>>),
     Oci(<<L("wkg", w1)>>),
     Oci(<<L("data", asset), L("wkg", w1)>>),
     Oci(<<>>),
     [kind |-> "file", layers |-> <<>>]}

MCEngine == {"v1", "v2"}
=============================================================================

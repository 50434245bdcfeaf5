-------------------------- MODULE MCNodeInstaller ---------------------------
(* Every kind of node, each on its own.                                     *)
EXTENDS NodeInstaller

MCDistros == {"plain", "microk8s", "k3s", "rke2", "k0s"}
=============================================================================

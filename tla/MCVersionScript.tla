-------------------------- MODULE MCVersionScript ---------------------------
(* Two images and one document.                                             *)
EXTENDS VersionScript

CONSTANTS image1, image2, quickstart

MCManifest == {image1, image2}
MCDoc == {quickstart}
=============================================================================

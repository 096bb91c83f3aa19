----------------------------- MODULE MCInformer -----------------------------
(* Two informers that share a stream, as those of devices and of metadata.  *)
EXTENDS Informer

CONSTANTS device, metadata
MCKinds == {device, metadata}
=============================================================================

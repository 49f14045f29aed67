----------------------------- MODULE MCUploader -----------------------------
(* Files of up to three parts. *)
EXTENDS Uploader, TLC
=============================================================================

----------------------- MODULE MCAttachmentPipeline -----------------------
(* Small instances of AttachmentPipeline for TLC.                            *)
EXTENDS AttachmentPipeline, TLC

CONSTANTS w1, image, pdf
ImageFirst == <<image, pdf>>
=============================================================================

---------------------------- MODULE MCGmailSync ----------------------------
(* A small instance of GmailSync for TLC.                                    *)
EXTENDS GmailSync, TLC

CONSTANTS scheduler, request
=============================================================================

----------------------------- MODULE MCStartup ------------------------------
(***************************************************************************)
(* Startup for TLC, and with it the rules about texts.  They have no state *)
(* of their own and are evaluated where the behaviours begin.              *)
(***************************************************************************)
EXTENDS StartupInvariant, TextRules

\* is_update_available takes the release with the greater number for the newer
\* one, as long as the numbers in which two releases part are equally long,
\* and never a release for an update of itself.
VersionsInOrder == Init => OrderAgrees

\* master_request_handler finds for every URI the record that was registered
\* for it and for no other, for URIs that are shorter than the buffer.
EndpointsFound == Init => LookupFinds
=============================================================================

-------------------------- MODULE MCStorageCleanup --------------------------
(* Instances of StorageCleanup for TLC.                                    *)
EXTENDS StorageCleanup

\* A test medium, a recording, an event's snapshot, and a clip of a later hour.
MCKind == <<"media", "record", "event", "clip">>
MCHour == <<0, 0, 0, 1>>
=============================================================================

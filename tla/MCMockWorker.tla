----------------------------- MODULE MCMockWorker -----------------------------
(* Small instances of MockWorker for TLC. *)
EXTENDS MockWorker, TLC

CONSTANTS page, frame

(* A page that does all, and a frame that goes without a word. *)
PageAndFrame == page :> Data @@ frame :> {"MOCK_ACTIVATE"}
===============================================================================

-------------------------- MODULE MCStorageRequests --------------------------
(* One sector of two pages on every board: a request may need one command  *)
(* or two.  Requests that cross sectors are FlashIAP's subject.            *)
EXTENDS StorageRequests
=============================================================================

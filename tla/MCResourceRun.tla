---------------------------- MODULE MCResourceRun ----------------------------
(***************************************************************************)
(* Two documents with a dependent resource.  The lifecycle document of the *)
(* engine's tests: POST /orgs, POST /orgs/{id}/users, their DELETEs and a  *)
(* PATCH.  And one that configures the same DELETE for both creations:     *)
(* POST /folders, POST /files with the folder in its body, DELETE          *)
(* /items/{id} bound to the file, hints.delete of both naming it.          *)
(***************************************************************************)
EXTENDS ResourceRunInv

MCRole == [o \in Op |->
  CASE o \in {"postOrg", "postUser"} -> "create"
    [] o \in {"deleteOrg", "deleteUser"} -> "delete"
    [] OTHER -> "update"]
MCProducers == [o \in Op |->
  CASE o = "postOrg" -> {}
    [] o = "deleteUser" -> {"postOrg", "postUser"}
    [] OTHER -> {"postOrg"}]
MCDeleteOf == [o \in Op |->
  CASE o = "postOrg" -> "deleteOrg"
    [] o = "postUser" -> "deleteUser"
    [] OTHER -> "none"]
MCTarget == [o \in Op |->
  CASE o = "deleteUser" -> "postUser"
    [] o \in {"deleteOrg", "patchOrg", "postUser"} -> "postOrg"
    [] OTHER -> "none"]

SharedRole == [o \in Op |->
  CASE o \in {"postFolder", "postFile"} -> "create"
    [] o = "deleteItem" -> "delete"
    [] OTHER -> "update"]
SharedProducers == [o \in Op |->
  CASE o = "postFolder" -> {}
    [] o = "deleteItem" -> {"postFile"}
    [] OTHER -> {"postFolder"}]
SharedDeleteOf == [o \in Op |->
  IF o \in {"postFolder", "postFile"} THEN "deleteItem" ELSE "none"]
SharedTarget == [o \in Op |->
  CASE o = "deleteItem" -> "postFile"
    [] o = "patchFolder" -> "postFolder"
    [] OTHER -> "none"]
==============================================================================

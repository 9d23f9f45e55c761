---------------------------- MODULE Permissions ----------------------------
(***************************************************************************)
(* platform.Permissions (unnamed/part_016): a []Permission edited in      *)
(* place through a pointer.  Grant appends without looking for duplicates; *)
(* Revoke ranges over the slice while it removes from it, shifting the    *)
(* tail left inside the same backing array.  The range reads the array   *)
(* it started with up to the length it started with, so a removal hides  *)
(* the next element from the loop, and past the new end the loop reads    *)
(* the stale copy the shift left behind.                                  *)
(*                                                                         *)
(* t is a session's list and all the process-wide AllPermissions.  Both  *)
(* come from NewPermissions, so the nil-receiver returns are not reached. *)
(***************************************************************************)
EXTENDS Naturals, Sequences

CONSTANTS
  Perm,      \* permission names
  MaxLen,    \* the longest slice explored
  MaxArgs    \* the most arguments of one variadic call

VARIABLES
  t,         \* the session's *Permissions
  all,       \* AllPermissions
  panicked,  \* a call panicked (slice bounds out of range)
  last       \* the last call: [op, args]

pvars == <<t, all, panicked, last>>

(* The argument lists of a variadic call.                                  *)
Args == UNION {[1..k -> Perm] : k \in 1..MaxArgs}

PermInit ==
  /\ t = <<>> /\ all = <<>>
  /\ panicked = FALSE
  /\ last = [op |-> "none", args |-> <<>>]

(* Can: a linear search of the slice.                                      *)
Can(s, per) == \E i \in 1..Len(s) : s[i] = per

(* The inner loop of Revoke for one p.  arr is the backing array as the   *)
(* range sees it (its length is the length the range started with), n is *)
(* the length of *t, and i the 1-based position of idx.  A match at the  *)
(* end cuts the slice; elsewhere the tail arr[i+1..n] moves to            *)
(* arr[i..n-1], and slicing from idx+1 > n panics.  The result is the     *)
(* array and the length, with ok FALSE for the panic.                     *)
RECURSIVE RemoveAll(_, _, _, _)
RemoveAll(arr, n, p, i) ==
  IF i > Len(arr) THEN [ok |-> TRUE, arr |-> arr, n |-> n]
  ELSE IF arr[i] # p THEN RemoveAll(arr, n, p, i + 1)
  ELSE IF i = n THEN RemoveAll(arr, n - 1, p, i + 1)
  ELSE IF i > n THEN [ok |-> FALSE, arr |-> arr, n |-> n]
  ELSE RemoveAll([j \in 1..Len(arr) |-> IF j >= i /\ j < n THEN arr[j + 1] ELSE arr[j]],
                 n - 1, p, i + 1)

(* The outer loop of Revoke: each p of per in order, on the slice left by *)
(* the previous one.                                                        *)
RECURSIVE Revoked(_, _)
Revoked(s, per) ==
  IF per = <<>> THEN [ok |-> TRUE, s |-> s]
  ELSE LET r == RemoveAll(s, Len(s), Head(per), 1)
       IN IF r.ok THEN Revoked(SubSeq(r.arr, 1, r.n), Tail(per))
          ELSE [ok |-> FALSE, s |-> s]

(* Grant: append each permission of list.                                  *)
Grant(list) ==
  /\ ~panicked
  /\ Len(t) + Len(list) <= MaxLen
  /\ t' = t \o list
  /\ last' = [op |-> "grant", args |-> list]
  /\ UNCHANGED <<all, panicked>>

(* GrantAll: t grants every entry of AllPermissions.                       *)
GrantAll ==
  /\ ~panicked
  /\ Len(t) + Len(all) <= MaxLen
  /\ t' = t \o all
  /\ last' = [op |-> "grantAll", args |-> all]
  /\ UNCHANGED <<all, panicked>>

(* Revoke(per...): the nested loops, in place.                            *)
Revoke(per) ==
  /\ ~panicked
  /\ LET r == Revoked(t, per)
     IN IF r.ok
          THEN t' = r.s /\ UNCHANGED panicked
          ELSE panicked' = TRUE /\ UNCHANGED t
  /\ last' = [op |-> "revoke", args |-> per]
  /\ UNCHANGED all

(* RevokeAll: *t cut to length 0.                                          *)
RevokeAll ==
  /\ ~panicked
  /\ t' = <<>>
  /\ last' = [op |-> "revokeAll", args |-> <<>>]
  /\ UNCHANGED <<all, panicked>>

(* RegisterPermissions: AllPermissions.Grant(name...).                     *)
RegisterPermissions(names) ==
  /\ ~panicked
  /\ Len(all) + Len(names) <= MaxLen
  /\ all' = all \o names
  /\ last' = [op |-> "register", args |-> names]
  /\ UNCHANGED <<t, panicked>>

PermNext ==
  \/ \E list \in Args : Grant(list) \/ Revoke(list) \/ RegisterPermissions(list)
  \/ GrantAll \/ RevokeAll

PermSpec == PermInit /\ [][PermNext]_pvars

-----------------------------------------------------------------------------
(* PROPERTIES *)

(* Revoke(per...) returns, and afterwards Can(p) is false for every p of   *)
(* per: the session's permissions are a set (spec, Session), and Grant may *)
(* have added p more than once.                                             *)
RevokeRemoves ==
  last.op = "revoke" =>
    /\ ~panicked
    /\ \A i \in 1..Len(last.args) : ~Can(t, last.args[i])
=============================================================================

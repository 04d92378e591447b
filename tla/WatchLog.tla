------------------------------ MODULE WatchLog ------------------------------
(***************************************************************************)
(* An object as a controller sees it.  Controllers read through an         *)
(* informer cache and write straight to the API server, so what they act   *)
(* on is in general older than what they overwrite.  An object is kept as  *)
(* a LOG of versions: the first is the one the cache holds, the last is    *)
(* the one the API server holds, and those between are watch events under  *)
(* way.                                                                    *)
(***************************************************************************)
EXTENDS Integers, Sequences

Cached(log)  == Head(log)
Current(log) == log[Len(log)]

\* A write that changes nothing produces no new version and no watch event.
Write(log, v) == IF v = Current(log) THEN log ELSE Append(log, v)

\* What a manager that restarts finds: it lists, and is up to date.
Relist(log) == <<Current(log)>>

\* client.MergeFrom: a field goes into the patch when it differs from the
\* object that was read, and only what is in the patch is overwritten.
Patched(old, base, new) == IF new = base THEN old ELSE new

=============================================================================

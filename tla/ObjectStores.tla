---------------------------- MODULE ObjectStores ----------------------------
(***************************************************************************)
(* The two stores of emote images (internal/emote/objstore) during a       *)
(* migration: one of them is the primary, the other may be read when the   *)
(* primary does not answer, and may be written along with it.  What a read *)
(* finds in the other one is put into the primary, at once (Get, GetSrc)   *)
(* or, for a streamed read, by a goroutine when the stream has been read.  *)
(*                                                                         *)
(* One object is modelled, a render or a source.  Its content is the       *)
(* number of the put that wrote it.  A call to a store may fail, before or *)
(* after it took effect.  A restart may change the configuration.          *)
(***************************************************************************)
EXTENDS Naturals

CONSTANTS
  Handlers,  (* bound: calls at the same time                                *)
  Slots,     (* promotions that may run at the same time (4 in the code)     *)
  MaxPuts    (* bound: puts                                                  *)

VARIABLES
  conf,      (* the configuration: second, flip, dual, through                *)
  held,      (* per store, the content it holds; 0 is none                    *)
  call,      (* per handler: its operation, where it is and what it holds     *)
  promo,     (* per slot: the content a goroutine is about to put, or 0       *)
  puts,      (* puts so far                                                   *)
  kept       (* history: a put succeeded, nothing has deleted it since, and   *)
             (* every restart since had two stores and reads that fall back   *)

vars == <<conf, held, call, promo, puts, kept>>

Stores == {"local", "secondary"}

\* There is a secondary store; it is the primary; writes go to both; reads fall back.
\* main.go ends when the secondary is to be the primary and there is none.
Configs == {c \in [second : BOOLEAN, flip : BOOLEAN, dual : BOOLEAN, through : BOOLEAN] :
              c.flip => c.second}

Rest == [op |-> "none", at |-> "idle", val |-> 0, clean |-> TRUE]

TypeOK ==
  /\ conf \in Configs
  /\ held \in [Stores -> 0 .. MaxPuts]
  /\ call \in [Handlers -> [op : {"none", "get", "open", "stat", "put", "delete"},
                            at : {"idle", "primary", "fallback", "promote", "stream", "replica"},
                            val : 0 .. MaxPuts, clean : BOOLEAN]]
  /\ promo \in [Slots -> 0 .. MaxPuts]
  /\ puts \in 0 .. MaxPuts
  /\ kept \in BOOLEAN

Init ==
  /\ conf \in Configs
  /\ held = [s \in Stores |-> 0]
  /\ call = [h \in Handlers |-> Rest]
  /\ promo = [s \in Slots |-> 0]
  /\ puts = 0
  /\ kept = FALSE

-----------------------------------------------------------------------------

Primary == IF conf.flip THEN "secondary" ELSE "local"

Other == IF conf.flip THEN "local" ELSE "secondary"

\* Mutant: after the cutover nothing falls back to the local store.
FallbackBefore == conf.second /\ conf.through /\ ~conf.flip

HasFallback == conf.second /\ conf.through

HasReplica == conf.second

\* The stores themselves: an object is there or not, is written or removed.
Found(s) == held[s] # 0

Content(s) == held[s]

Stored(s, v) == [held EXCEPT ![s] = v]

Removed(s) == [held EXCEPT ![s] = 0]

Call(h, op, v) ==
  /\ call[h] = Rest
  /\ call' = [call EXCEPT ![h] = [Rest EXCEPT !.op = op, !.at = "primary", !.val = v]]

Goto(h, where, v) == call' = [call EXCEPT ![h].at = where, ![h].val = v]

Done(h) == call' = [call EXCEPT ![h] = Rest]

-----------------------------------------------------------------------------
(* Get and GetSrc ("get"), Open ("open"), Stat and Exists ("stat").         *)

Read(h, op) ==
  /\ Call(h, op, 0)
  /\ UNCHANGED <<conf, held, promo, puts, kept>>

\* The primary has it; or it does not, or does not answer.
ReadPrimary(h) ==
  /\ call[h].at = "primary" /\ call[h].op \in {"get", "open", "stat"}
  /\ \/ Found(Primary) /\ Done(h)
     \/ IF HasFallback THEN Goto(h, "fallback", 0) ELSE Done(h)
  /\ UNCHANGED <<conf, held, promo, puts, kept>>

ReadFallback(h) ==
  /\ call[h].at = "fallback"
  /\ \/ Done(h)
     \/ /\ Found(Other)
        /\ CASE call[h].op = "get"  -> Goto(h, "promote", Content(Other))
             [] call[h].op = "open" -> Goto(h, "stream", Content(Other))
             [] call[h].op = "stat" -> Done(h)
  /\ UNCHANGED <<conf, held, promo, puts, kept>>

\* A promotion reaches the primary, or fails, which nobody hears of.
Promotes(v) == held' = Stored(Primary, v) \/ UNCHANGED held

Promote(h) ==
  /\ call[h].at = "promote"
  /\ Promotes(call[h].val)
  /\ Done(h)
  /\ UNCHANGED <<conf, promo, puts, kept>>

\* The stream has been read to its end and a slot is free; or it is too large, is closed before
\* its end, or all slots are taken.
Stream(h) ==
  /\ call[h].at = "stream"
  /\ \/ \E s \in Slots : promo[s] = 0 /\ promo' = [promo EXCEPT ![s] = call[h].val]
     \/ UNCHANGED promo
  /\ Done(h)
  /\ UNCHANGED <<conf, held, puts, kept>>

PromoteRender(s) ==
  /\ promo[s] # 0
  /\ Promotes(promo[s])
  /\ promo' = [promo EXCEPT ![s] = 0]
  /\ UNCHANGED <<conf, call, puts, kept>>

-----------------------------------------------------------------------------
(* Put and PutSrc: the primary first, then the other one in dual writes.    *)

Put(h) ==
  /\ call[h] = Rest /\ puts < MaxPuts
  /\ call' = [call EXCEPT ![h] =
                [op |-> "put", at |-> "primary", val |-> puts + 1,
                 clean |-> \A g \in Handlers : call[g].op # "delete"]]
  /\ puts' = puts + 1
  /\ UNCHANGED <<conf, held, promo, kept>>

\* A put that a delete has overlapped is not claimed to stay.
PutOk(h) ==
  /\ kept' = (kept \/ call[h].clean)
  /\ Done(h)

PutPrimary(h) ==
  /\ call[h].op = "put" /\ call[h].at = "primary"
  /\ held' = Stored(Primary, call[h].val)
  /\ IF conf.dual /\ HasReplica THEN Goto(h, "replica", call[h].val) /\ UNCHANGED kept
     ELSE PutOk(h)
  /\ UNCHANGED <<conf, promo, puts>>

PutReplica(h) ==
  /\ call[h].op = "put" /\ call[h].at = "replica"
  /\ held' = Stored(Other, call[h].val)
  /\ PutOk(h)
  /\ UNCHANGED <<conf, promo, puts>>

PutFails(h) ==
  /\ call[h].op = "put"
  /\ \/ UNCHANGED held
     \/ held' = Stored(IF call[h].at = "primary" THEN Primary ELSE Other, call[h].val)
  /\ Done(h)
  /\ UNCHANGED <<conf, promo, puts, kept>>

-----------------------------------------------------------------------------
(* Delete: both are asked, whatever the first one says.                     *)

Delete(h) ==
  /\ call[h] = Rest
  /\ call' = [g \in Handlers |->
                IF g = h THEN [Rest EXCEPT !.op = "delete", !.at = "primary"]
                ELSE IF call[g].op = "put" THEN [call[g] EXCEPT !.clean = FALSE] ELSE call[g]]
  /\ kept' = FALSE
  /\ UNCHANGED <<conf, held, promo, puts>>

\* A store that fails to delete leaves what it has.
Erase(s) == held' = Removed(s) \/ UNCHANGED held

DeletePrimary(h) ==
  /\ call[h].op = "delete" /\ call[h].at = "primary"
  /\ Erase(Primary)
  /\ IF HasReplica THEN Goto(h, "replica", 0) ELSE Done(h)
  /\ UNCHANGED <<conf, promo, puts, kept>>

DeleteReplica(h) ==
  /\ call[h].op = "delete" /\ call[h].at = "replica"
  /\ Erase(Other)
  /\ Done(h)
  /\ UNCHANGED <<conf, promo, puts, kept>>

-----------------------------------------------------------------------------

\* The service is started again, with another configuration maybe.  What was put is claimed to
\* be readable only while there are two stores and reads fall back.
Restart ==
  /\ \E c \in Configs : /\ conf' = c
                        /\ kept' = (kept /\ c.second /\ c.through)
  /\ call' = [h \in Handlers |-> Rest]
  /\ promo' = [s \in Slots |-> 0]
  /\ UNCHANGED <<held, puts>>

Next ==
  \/ \E h \in Handlers :
       \/ \E op \in {"get", "open", "stat"} : Read(h, op)
       \/ ReadPrimary(h) \/ ReadFallback(h) \/ Promote(h) \/ Stream(h)
       \/ Put(h) \/ PutPrimary(h) \/ PutReplica(h) \/ PutFails(h)
       \/ Delete(h) \/ DeletePrimary(h) \/ DeleteReplica(h)
  \/ \E s \in Slots : PromoteRender(s)
  \/ Restart

Spec == Init /\ [][Next]_vars

-----------------------------------------------------------------------------

(***************************************************************************)
(* A put that succeeded can be read until somebody deletes it: one of the  *)
(* stores that reads go to has the object (NewReadThroughStore,            *)
(* read_through.go:35-58; Get, 70-89).  Between the put and the read the   *)
(* stores may change places and writes may go to one or both; a restart    *)
(* with one store, or without the fallback of reads, ends the claim.       *)
(***************************************************************************)
StaysReadable == kept => Found(Primary) \/ (HasFallback /\ Found(Other))

=============================================================================

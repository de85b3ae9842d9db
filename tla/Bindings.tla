------------------------------- MODULE Bindings -------------------------------
(***************************************************************************)
(* What one operation of the opencode session store computes               *)
(* (packages/opencode-adapter/src/session-store.ts): a session id maps to  *)
(* a list of bindings to agy conversations, each with the message hashes   *)
(* of the turn that bound it.  Pure operators; SessionFile applies them    *)
(* one at a time, SessionStore from several processes.                     *)
(***************************************************************************)
EXTENDS Integers, Sequences, FiniteSets, SequencesExt

CONSTANTS
    Session,         \* opencode session ids
    Conversation,    \* agy conversation ids
    MaxBindings,     \* MAX_BINDINGS_PER_SESSION
    MaxAge           \* SESSION_MAX_AGE_MS, in ticks of the clock

ASSUME BindingsAssumption ==
    /\ MaxBindings \in Nat \ {0}
    /\ MaxAge \in Nat \ {0}

\* A baseline is unknown on an entry from before the upgrade, or bound
\* without hashes.
NoHashes   == [known |-> FALSE, of |-> <<>>]
Hashes(h)  == [known |-> TRUE, of |-> h]

Binding(c, baseline, now) == [cid |-> c, baseline |-> baseline, at |-> now]

hashesArePrefix(stored, incoming) == IsPrefix(stored, incoming)

\* The first index of S, or 0: findIndex without its -1.
FirstIndex(S) == IF S = {} THEN 0 ELSE Min(S)

\* The entries of a list.
Entries(list) == {list[i] : i \in DOMAIN list}

\* list.filter: the entries at the indices of kept, in their order.
Filter(list, kept) ==
    [k \in 1 .. Cardinality(kept) |->
        list[CHOOSE i \in kept : Cardinality({j \in kept : j <= i}) = k]]

-----------------------------------------------------------------------------
\* load(): entries past the retention age are invisible.
Fresh(list, now) == Filter(list, {i \in DOMAIN list : list[i].at > now - MaxAge})

Loaded(file, now) == [s \in Session |-> Fresh(file[s], now)]

\* resolve's test: a non-empty baseline is a prefix of the incoming hashes, or
\* would be one if the first message, of a longer baseline, had not changed.
Matches(e, incoming) ==
    LET h == e.baseline.of
    IN /\ e.baseline.known /\ h # <<>>
       /\ \/ hashesArePrefix(h, incoming)
          \/ /\ Len(h) > 1 /\ Len(incoming) >= Len(h)
             /\ hashesArePrefix(Tail(h), Tail(incoming))

\* resolve(): the index of the longest match (the first of equals), else of the
\* first entry without a baseline, else 0.
Resolve(list, incoming) ==
    LET matching == {i \in DOMAIN list : Matches(list[i], incoming)}
        longest  == {i \in matching :
                        \A j \in matching :
                            Len(list[j].baseline.of) <= Len(list[i].baseline.of)}
        adopt    == {i \in DOMAIN list : ~list[i].baseline.known}
    IN IF matching # {} THEN Min(longest) ELSE FirstIndex(adopt)

-----------------------------------------------------------------------------
\* Mutants of Slot: a thread is continued before its own conversation is looked
\* for; a changed first message still counts as a continuation.
SlotParentFirst(list, c, baseline) ==
    LET same   == {i \in DOMAIN list : list[i].cid = c}
        parent == {i \in DOMAIN list :
                      /\ baseline.known /\ list[i].baseline.of # <<>>
                      /\ hashesArePrefix(list[i].baseline.of, baseline.of)}
    IN IF parent # {} THEN Min(parent) ELSE FirstIndex(same)

SlotTolerant(list, c, baseline) ==
    LET same   == {i \in DOMAIN list : list[i].cid = c}
        parent == {i \in DOMAIN list : Matches(list[i], baseline.of)}
    IN IF same # {} THEN Min(same) ELSE FirstIndex(parent)

\* The entry bind() overwrites: the one of this conversation, else the first
\* whose baseline is a prefix of the new one.
Slot(list, c, baseline) ==
    LET same   == {i \in DOMAIN list : list[i].cid = c}
        parent == {i \in DOMAIN list :
                      /\ baseline.known /\ list[i].baseline.known
                      /\ list[i].baseline.of # <<>>
                      /\ hashesArePrefix(list[i].baseline.of, baseline.of)}
    IN IF same # {} THEN Min(same) ELSE FirstIndex(parent)

\* Mutant of Oldest: the end of the list goes.
OldestLast(list) == Len(list)

\* The entry to evict: the oldest, the first of equals.
Oldest(list) ==
    Min({i \in DOMAIN list : \A j \in DOMAIN list : list[i].at <= list[j].at})

\* Mutant of Capped: one entry too many is kept.
CappedLate(list) ==
    IF Len(list) > MaxBindings + 1 THEN RemoveAt(list, Oldest(list)) ELSE list

\* The eviction loop; one round of it is all a list within the cap can need.
Capped(list) ==
    IF Len(list) > MaxBindings THEN RemoveAt(list, Oldest(list)) ELSE list

Bind(list, c, baseline, now) ==
    LET i == Slot(list, c, baseline)
        e == Binding(c, baseline, now)
    IN Capped(IF i = 0 THEN Append(list, e) ELSE [list EXCEPT ![i] = e])

\* rebind() drops one conversation.
Drop(list, c) == Filter(list, {i \in DOMAIN list : list[i].cid # c})

-----------------------------------------------------------------------------
\* An operation is a record of a kind, a session, a conversation and a baseline,
\* as the kind needs; get, getEntry and resolve only read.

\* Does the operation write the file, given the sessions on disk?
Writes(o, file, now) ==
    CASE o.kind = "bind"      -> TRUE
      [] o.kind = "rebind"    ->
            \E i \in DOMAIN Fresh(file[o.s], now) :
                Fresh(file[o.s], now)[i].cid = o.c
      [] o.kind = "rebindAll" -> Fresh(file[o.s], now) # <<>>
      [] o.kind = "prune"     -> Loaded(file, now) # file
      [] o.kind = "read"      -> FALSE

\* The file the operation writes.
Result(o, file, now) ==
    LET loaded == Loaded(file, now)
    IN CASE o.kind = "bind" ->
              [loaded EXCEPT ![o.s] = Bind(@, o.c, o.baseline, now)]
         [] o.kind = "rebind"    -> [loaded EXCEPT ![o.s] = Drop(@, o.c)]
         [] o.kind = "rebindAll" -> [loaded EXCEPT ![o.s] = <<>>]
         [] OTHER                 -> loaded

Apply(o, file, now) ==
    IF Writes(o, file, now) THEN Result(o, file, now) ELSE file
=============================================================================

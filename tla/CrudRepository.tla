--------------------------- MODULE CrudRepository ---------------------------
(***************************************************************************)
(* Lists by page.  A client asks for page after page of the documents      *)
(* that match its filter, in the order of one of their fields; nothing     *)
(* remembers where it is, and each page is two queries at once: the items  *)
(* and the total.  Meanwhile documents are inserted, changed and deleted.  *)
(*                                                                         *)
(* A change that a filter notices is, for a client, an insertion or a      *)
(* deletion.  Each query sees the collection at one moment.                *)
(***************************************************************************)
EXTENDS Naturals, Sequences, SequencesExt

CONSTANTS
    Document, Key,         \* a field of the documents, a number
    Client, Remover,
    DefaultSize, MaxSize,
    Null,                  \* an absent size, page or order
    MaxChanges             \* bound on the changes of the collection

Orders == {"asc", "desc"}
\* what may stand for an order in a query string or in a message
OrderTexts == {"name:asc", "name:desc", "name:other", "name", ":asc",
               "{name, asc}", "{name}", "[]"}
Unread == <<"unread">>

DocumentAssumption == IsFiniteSet(Document) /\ "unread" \notin Document /\ Key \subseteq Nat
BoundAssumption == {DefaultSize, MaxSize, MaxChanges} \subseteq Nat
NullAssumption == Null \notin Nat \union Orders \union OrderTexts \union {"400"}

VARIABLES
    docs,        \* the key of each document that was ever inserted
    active,      \* those that are not deleted
    client,      \* the walk of each client; strict: no two documents were equal
    items, total,\* the two answers to its queries
    seen,        \* history: the items of all its pages
    since,       \* history: the documents that were active all the time
    entered, left, \* history: the clients during whose walk one came, one went
    remover,     \* what each deletion has done
    changes

walks == <<client, items, total, seen>>
vars == <<docs, active, walks, since, entered, left, remover, changes>>

TypeOK ==
    /\ DOMAIN docs \subseteq Document /\ active \subseteq DOMAIN docs
    /\ \A d \in DOMAIN docs : docs[d] \in Key
    /\ \A c \in Client : LET w == client[c] IN
          /\ w.step \in {"new", "query", "next", "done", "400"}
          /\ w.order \in Orders \union {Null} /\ w.size \in 0..MaxSize /\ w.page \in Nat
          /\ items[c] = Unread \/ (Len(items[c]) <= w.size /\ Range(items[c]) \subseteq DOMAIN docs)
          /\ since[c] \subseteq active

Init ==
    /\ docs \in UNION {[D -> Key] : D \in SUBSET Document}
    /\ active = DOMAIN docs
    /\ client = [c \in Client |-> [step |-> "new", order |-> Null, size |-> 0, page |-> 1,
                                 strict |-> FALSE]]
    /\ items = [c \in Client |-> Unread] /\ total = [c \in Client |-> Null]
    /\ seen = [c \in Client |-> <<>>] /\ since = [c \in Client |-> {}]
    /\ entered = {} /\ left = {} /\ changes = 0
    /\ remover = [r \in Remover |-> [step |-> "new", ids |-> {}, count |-> 0]]

Walking == {c \in Client : client[c].step \in {"query", "next"}}

-----------------------------------------------------------------------------
\* parseOrderBy: null is no order, and what it cannot read is refused
ParseOrderBy(t) ==
    CASE t = Null -> Null
      [] t \in {"name:asc", "{name, asc}"} -> "asc"
      [] t = "name:desc" -> "desc"
      [] OTHER -> "400"

SizeOf(n) == IF n = Null THEN DefaultSize ELSE n

\* PaginationSchema and the limits of findWithPagination
Ask(c) ==
    /\ client[c].step = "new"
    /\ \E t \in OrderTexts \union {Null}, n \in (0..(MaxSize + 1)) \union {Null} :
          IF ParseOrderBy(t) = "400" \/ SizeOf(n) \notin 1..MaxSize
             THEN client' = [client EXCEPT ![c].step = "400"] /\ UNCHANGED since
             ELSE /\ client' = [client EXCEPT ![c] =
                        [step |-> "query", order |-> ParseOrderBy(t), size |-> SizeOf(n), page |-> 1,
                         strict |-> ParseOrderBy(t) # Null]]
                  /\ since' = [since EXCEPT ![c] = active]
    /\ UNCHANGED <<docs, active, items, total, seen, entered, left, remover, changes>>

\* the sequences in which the database may return the active documents: those
\* with equal keys, and all of them without an order, in any order
Sorted(order) ==
    {s \in SetToSeqs(active) : \A i, j \in DOMAIN s : i < j =>
        CASE order = "asc" -> docs[s[i]] <= docs[s[j]]
          [] order = "desc" -> docs[s[i]] >= docs[s[j]]
          [] OTHER -> TRUE}

\* pages count from zero
Skip_Faulty(page, size) == page * size

Skip(page, size) == (page - 1) * size

Distinct == \A d, e \in active : d # e => docs[d] # docs[e]

FindItems(c) ==
    LET w == client[c]  from == Skip(w.page, w.size) IN
    /\ w.step = "query" /\ items[c] = Unread
    /\ \E s \in Sorted(w.order) :
          items' = [items EXCEPT ![c] = SubSeq(s, from + 1, Min({from + w.size, Len(s)}))]
    /\ client' = [client EXCEPT ![c].strict = @ /\ Distinct]
    /\ UNCHANGED <<docs, active, total, seen, since, entered, left, remover, changes>>

CountDocuments(c) ==
    /\ client[c].step = "query" /\ total[c] = Null
    /\ total' = [total EXCEPT ![c] = Cardinality(active)]
    /\ UNCHANGED <<docs, active, client, items, seen, since, entered, left, remover, changes>>

\* both are there, and a page that is not full is the last one
Receive(c) ==
    /\ client[c].step = "query" /\ items[c] # Unread /\ total[c] # Null
    /\ seen' = [seen EXCEPT ![c] = @ \o items[c]]
    /\ client' = [client EXCEPT ![c].step = IF Len(items[c]) < client[c].size THEN "done" ELSE "next"]
    /\ UNCHANGED <<docs, active, items, total, since, entered, left, remover, changes>>

NextPage(c) ==
    /\ client[c].step = "next"
    /\ client' = [client EXCEPT ![c].step = "query", ![c].page = @ + 1]
    /\ items' = [items EXCEPT ![c] = Unread] /\ total' = [total EXCEPT ![c] = Null]
    /\ UNCHANGED <<docs, active, seen, since, entered, left, remover, changes>>

-----------------------------------------------------------------------------
Change(n) == changes + n <= MaxChanges /\ changes' = changes + n

InsertOne(d) ==
    /\ d \in Document \ DOMAIN docs
    /\ \E k \in Key : docs' = [e \in DOMAIN docs \union {d} |-> IF e = d THEN k ELSE docs[e]]
    /\ active' = active \union {d}
    /\ entered' = entered \union Walking
    /\ Change(1)
    /\ UNCHANGED <<walks, since, left, remover>>

ActiveFilter(D) == D \intersect active

\* updateMany is not atomic over documents; deleteById is the case of one
DeleteByIds(r) ==
    /\ remover[r].step = "new"
    /\ \E D \in SUBSET DOMAIN docs \ {{}} :
          remover' = [remover EXCEPT ![r] = [step |-> "delete", ids |-> D, count |-> 0]]
    /\ UNCHANGED <<docs, active, walks, since, entered, left, changes>>

\* a document that is deleted already is not found
DeleteOne(r) ==
    /\ \E d \in remover[r].ids : LET found == ActiveFilter({d}) IN
          /\ remover' = [remover EXCEPT ![r].ids = @ \ {d}, ![r].count = @ + Cardinality(found)]
          /\ active' = active \ found
          /\ since' = [c \in Client |-> since[c] \ found]
          /\ left' = IF found = {} THEN left ELSE left \union Walking
          /\ Change(Cardinality(found))
    /\ UNCHANGED <<docs, walks, entered>>

\* a document gets another key
Update(d) ==
    /\ d \in active
    /\ \E k \in Key \ {docs[d]} : docs' = [docs EXCEPT ![d] = k]
    /\ entered' = entered \union Walking /\ left' = left \union Walking
    /\ Change(1)
    /\ UNCHANGED <<active, walks, since, remover>>

Next ==
    \/ \E c \in Client :
          Ask(c) \/ FindItems(c) \/ CountDocuments(c) \/ Receive(c) \/ NextPage(c)
    \/ \E d \in Document : InsertOne(d) \/ Update(d)
    \/ \E r \in Remover : DeleteByIds(r) \/ DeleteOne(r)

Spec == Init /\ [][Next]_vars

-----------------------------------------------------------------------------
\* A client that walks in a strict order until a page is not full misses no
\* document unless one left during its walk, gets none twice unless one came,
\* and when nothing happened has as many as it was told.
PagesAddUp ==
    \A c \in Client : client[c].step = "done" /\ client[c].strict =>
        /\ c \notin left => since[c] \subseteq Range(seen[c])
        /\ c \notin entered => IsInjective(seen[c])
        /\ c \notin entered \union left => Len(seen[c]) = total[c]

\* Of several deletions of one document, one has deleted it: what they count
\* adds up to what is gone (deleteById, deleteByIds).
DeletionsAddUp ==
    LET counted == UNION {{r} \X (1..remover[r].count) : r \in Remover}
    IN  Cardinality(counted) = Cardinality(DOMAIN docs \ active)
=============================================================================

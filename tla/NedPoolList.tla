---------------------------- MODULE NedPoolList ----------------------------
(***************************************************************************)
(* The list of the pools of a process (nedmalloc/nedmalloc.c:              *)
(* nedcreatepool, neddestroypool, nedpoollist).  The list is made for the  *)
(* first pool and freed with the last; a lock guards it, but whether there *)
(* is a list is tested without the lock, and whoever makes the list        *)
(* initialises the lock.  The code is right only for callers that create   *)
(* the first pool and destroy the last with no other call under way: the   *)
(* guards of Begin.                                                        *)
(***************************************************************************)
EXTENDS Integers, FiniteSets

CONSTANTS Caller,     \* the threads
          Pool,       \* addresses of pools
          FirstSize,  \* the pools a new list has room for (16; 1 with DEBUG)
          ListPlans,  \* bounds on the calls: how many each thread makes
          Junk,       \* what uninitialised memory may hold
          Asserts,    \* the build checks assertions (NDEBUG is not defined)
          NULL

ASSUME NedPoolListAssumption ==
    /\ FirstSize \in Nat \ {0} /\ ListPlans \subseteq [Caller -> Nat]
    /\ NULL \notin Pool \union Caller /\ Junk \notin Pool \union {NULL}
    /\ Asserts \in BOOLEAN

VARIABLES
    poollist,      \* NULL, or a list: its size, its length and its entries
    poollistlock,  \* the thread that holds the lock
    clients,       \* the pools clients have
    at, victim,      \* where each thread is, and the pool it destroys
    todo           \* how many calls each thread has yet to make

listvars == <<poollist, poollistlock, clients, at, victim, todo>>

ListInit ==
    /\ poollist = NULL /\ poollistlock = NULL
    /\ clients = {}
    /\ at = [t \in Caller |-> "idle"]
    /\ victim = [t \in Caller |-> NULL]
    /\ todo \in ListPlans

Goes(t, label) == at' = [at EXCEPT ![t] = label]
Alone(t) == \A u \in Caller \ {t} : at[u] = "idle"
\* A thread that destroys a pool has freed it before it looks for it in the list.
Allocated == clients \union {victim[t] : t \in {u \in Caller : at[u] = "destroy"}}

BeginCreate(t) ==
    /\ at[t] = "idle" /\ todo[t] > 0 /\ (clients = {} => Alone(t))
    /\ todo' = [todo EXCEPT ![t] = @ - 1]
    /\ Goes(t, "create")
    /\ UNCHANGED <<poollist, poollistlock, clients, victim>>

BeginDestroy(t) ==
    /\ at[t] = "idle" /\ todo[t] > 0
    /\ todo' = [todo EXCEPT ![t] = @ - 1]
    /\ \E p \in clients :
         /\ clients = {p} => Alone(t)
         /\ clients' = clients \ {p}
         /\ victim' = [victim EXCEPT ![t] = p]
    /\ Goes(t, "destroy")
    /\ UNCHANGED <<poollist, poollistlock>>

BeginList(t) ==
    /\ at[t] = "idle" /\ todo[t] > 0 /\ (clients = {} => Alone(t))
    /\ todo' = [todo EXCEPT ![t] = @ - 1]
    /\ Goes(t, "list")
    /\ UNCHANGED <<poollist, poollistlock, clients, victim>>

-----------------------------------------------------------------------------
(* nedcreatepool *)

TestList(t) ==
    /\ at[t] = "create"
    /\ Goes(t, IF poollist = NULL THEN "new" ELSE "lock")
    /\ UNCHANGED <<poollist, poollistlock, clients, victim, todo>>

\* INITIAL_LOCK opens the lock, whoever has it.
NewList(t) ==
    /\ at[t] = "new"
    /\ \/ poollistlock' = t /\ Goes(t, "set")
       \/ UNCHANGED poollistlock /\ Goes(t, "idle")    \* no memory
    /\ UNCHANGED <<poollist, clients, victim, todo>>

SetList(t) ==
    /\ at[t] = "set"
    /\ poollist' = [size |-> FirstSize, length |-> 0, list |-> [i \in 0..FirstSize |-> NULL]]
    /\ Goes(t, "append")
    /\ UNCHANGED <<poollistlock, clients, victim, todo>>

LockList(t) ==
    /\ at[t] = "lock" /\ poollistlock = NULL
    /\ poollistlock' = t
    /\ Goes(t, "append")
    /\ UNCHANGED <<poollist, clients, victim, todo>>

\* A list that never grows.
Grown_not(l) == {l}

\* A full list grows by one.  What is cleared is the new last entry; the entry
\* after it, where the list ends, is as realloc left it.
Grown(l) ==
    IF l.length < l.size THEN {l}
    ELSE {[l EXCEPT !.size = @ + 1,
                    !.list = [i \in 0..(l.size + 1) |->
                                CASE i < l.size -> l.list[i]
                                  [] i = l.size -> NULL
                                  [] OTHER -> spare]] : spare \in {NULL, Junk}}

Append(t) ==
    /\ at[t] = "append"
    /\ \E l \in Grown(poollist), p \in Pool \ Allocated :
         /\ poollist' = [l EXCEPT !.list[l.length] = p, !.length = @ + 1]
         /\ clients' = clients \union {p}
    /\ poollistlock' = NULL
    /\ Goes(t, "idle")
    /\ UNCHANGED <<victim, todo>>

\* There is no memory for the larger list, for the victim, or for what InitPool makes.
AppendFails(t) ==
    /\ at[t] = "append"
    /\ poollist' \in {poollist} \union Grown(poollist)
    /\ poollistlock' = NULL
    /\ Goes(t, "idle")
    /\ UNCHANGED <<clients, victim, todo>>

-----------------------------------------------------------------------------
(* neddestroypool: first the victim, then its entry. *)

FreePool(t) ==
    /\ at[t] = "destroy"
    /\ Goes(t, "lock_remove")
    /\ UNCHANGED <<poollist, poollistlock, clients, victim, todo>>

LockRemove(t) ==
    /\ at[t] = "lock_remove" /\ poollistlock = NULL
    /\ poollistlock' = t
    /\ Goes(t, "remove")
    /\ UNCHANGED <<poollist, clients, victim, todo>>

\* The first entry that is this victim, or the end.
IndexOf(p) ==
    CHOOSE n \in 0..poollist.length :
        /\ n = poollist.length \/ poollist.list[n] = p
        /\ \A i \in 0..(n - 1) : poollist.list[i] # p

\* memmove over entry n, up to and with the entry that ends the list.
Removed(l, n) ==
    [l EXCEPT !.length = @ - 1,
              !.list = [i \in DOMAIN @ |-> IF n <= i /\ i < l.length THEN @[i + 1] ELSE @[i]]]

\* assert(!poollist->list[0]), before a list that has lost its last entry is freed
EmptiedIsClear(l) == l.length = 0 => l.list[0] = NULL

Remove(t) ==
    /\ at[t] = "remove"
    /\ LET l == Removed(poollist, IndexOf(victim[t]))
       IN /\ Asserts => EmptiedIsClear(l)
          /\ poollist' = IF l.length = 0 THEN NULL ELSE l
    /\ victim' = [victim EXCEPT ![t] = NULL]
    /\ poollistlock' = NULL
    /\ Goes(t, "idle")
    /\ UNCHANGED <<clients, todo>>

\* The assertion fails and stops the program, with the lock taken and an empty list.
RemoveStops(t) ==
    /\ at[t] = "remove" /\ Asserts
    /\ poollist' = Removed(poollist, IndexOf(victim[t]))
    /\ ~ EmptiedIsClear(poollist')
    /\ victim' = [victim EXCEPT ![t] = NULL]
    /\ Goes(t, "stopped")
    /\ UNCHANGED <<poollistlock, clients, todo>>

-----------------------------------------------------------------------------
(* nedpoollist: the copy it returns is the caller's. *)

TestListed(t) ==
    /\ at[t] = "list"
    /\ Goes(t, IF poollist = NULL THEN "idle" ELSE "lock_copy")
    /\ UNCHANGED <<poollist, poollistlock, clients, victim, todo>>

LockCopy(t) ==
    /\ at[t] = "lock_copy" /\ poollistlock = NULL
    /\ poollistlock' = t
    /\ Goes(t, "copy")
    /\ UNCHANGED <<poollist, clients, victim, todo>>

Copy(t) ==
    /\ at[t] = "copy"
    /\ poollistlock' = NULL
    /\ Goes(t, "idle")
    /\ UNCHANGED <<poollist, clients, victim, todo>>

ListStep(t) ==
    \/ BeginCreate(t) \/ BeginDestroy(t) \/ BeginList(t)
    \/ TestList(t) \/ NewList(t) \/ SetList(t) \/ LockList(t) \/ Append(t) \/ AppendFails(t)
    \/ FreePool(t) \/ LockRemove(t) \/ Remove(t) \/ RemoveStops(t)
    \/ TestListed(t) \/ LockCopy(t) \/ Copy(t)

\* A failed assertion stops every thread.
ListNext ==
    /\ \A t \in Caller : at[t] # "stopped"
    /\ \E t \in Caller : ListStep(t)

ListSpec == ListInit /\ [][ListNext]_listvars

-----------------------------------------------------------------------------
\* The list holds every pool clients have, and every pool whose destruction has not
\* come to its entry, as often as either is so: an address that is destroyed and
\* created again meanwhile is there twice.  Whoever holds the lock finds a list, and
\* a pool being destroyed is in it: assert(poollist) and assert(n!=poollist->length)
\* of neddestroypool.  The list ends in a null ("zero terminated", nedmalloc.h:548)
\* unless it has grown; only then can the third assertion, that an emptied list
\* starts with a null, fail (ListEmptiesClear).
ListExact ==
    /\ \A t \in Caller : at[t] \in {"append", "remove", "copy", "stopped"} =>
         poollist # NULL /\ poollistlock = t
    /\ IF poollist = NULL THEN clients = {} /\ \A t \in Caller : victim[t] = NULL
       ELSE /\ poollist.length <= poollist.size
            /\ \A p \in Pool :
                 Cardinality({i \in 0..(poollist.length - 1) : poollist.list[i] = p})
                 = Cardinality({c \in clients : c = p})
                   + Cardinality({t \in Caller : victim[t] = p})
            /\ poollist.list[poollist.length] # NULL => poollist.size > FirstSize

\* assert(!poollist->list[0]) of neddestroypool (nedmalloc.c:1753) never stops the
\* program: the list from which the last pool is taken starts with the null that
\* ended it.
ListEmptiesClear == \A t \in Caller : at[t] # "stopped"
=============================================================================

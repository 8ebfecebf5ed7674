------------------------------ MODULE KbdSuite -------------------------------
(***************************************************************************)
(* src/kbdtest.c: keyboard reports decoded by the firmware under test, row  *)
(* by row against the answer of that firmware's place in a lineage of three *)
(* fixes, and a check of the keyboards a parsed interface holds.           *)
(*                                                                         *)
(* A tree is the number of fixes it has: 1 keeps every NKRO block, 2 has a  *)
(* keyboard_t per collection as well, 3 accepts wide usage ranges as well. *)
(***************************************************************************)
EXTENDS Naturals

CONSTANTS
    Keys,           \* decoded reports
    Rids,           \* report IDs
    MaxKeyboards,   \* MAX_KEYBOARDS
    MaxKbdRows      \* bound: rows, and descriptors of the slot check, in all

VARIABLES
    at,             \* "build", "rows", "slots", "exit"
    tree,           \* the fixes the firmware has
    kfailures,      \* any?
    kleft,          \* rows and descriptors left, at most
    undecoded,      \* history: a row was not run, or not decoded as the tree should
    unearned,       \* history: a row passed and credited a fix the tree could have done without
    shared          \* history: two report IDs, or two keyboards, shared a keyboard or an ID

kvars == <<at, tree, kfailures, kleft, undecoded, unearned, shared>>

Trees == 0..3

\* kbd_case_t
KbdRows == [keys : Keys, keys_fixed : Keys, keys_multi : Keys, keys_wide : Keys,
            has_multi : BOOLEAN, has_wide : BOOLEAN, fits : BOOLEAN]

KInit ==
    /\ at = "build" /\ tree = 0 /\ kfailures = FALSE /\ kleft = MaxKbdRows
    /\ undecoded = FALSE /\ unearned = FALSE /\ shared = FALSE

\* The Makefile's probes say which tree this is.
Build ==
    /\ at = "build" /\ tree' \in Trees /\ at' = "rows"
    /\ UNCHANGED <<kfailures, kleft, undecoded, unearned, shared>>

\* The fix a passing row is put down to, none being 0, and the column that goes with it
Credit(r, t) ==
    CASE t >= 3 /\ r.has_wide -> 3
      [] ~(t >= 3 /\ r.has_wide) /\ t >= 2 /\ r.has_multi -> 2
      [] ~(t >= 3 /\ r.has_wide) /\ ~(t >= 2 /\ r.has_multi) /\ t >= 1 -> 1
      [] OTHER -> 0

Want(r, t) == << r.keys, r.keys_fixed, r.keys_multi, r.keys_wide >>[Credit(r, t) + 1]

\* The tag of the first fix needs its columns to differ; the other two are on the row's word.
Tagged(r, t) == Credit(r, t) > 1 \/ (Credit(r, t) = 1 /\ r.keys # r.keys_fixed)

\* "a flagged column repeats the one before it"
RepeatsFixed(r) == (r.has_multi /\ r.keys_multi = r.keys_fixed) \/ (r.has_wide /\ r.keys_wide = r.keys_fixed)

Repeats(r) ==
    \/ r.has_multi /\ r.keys_multi = r.keys_fixed
    \/ r.has_wide /\ r.keys_wide = IF r.has_multi THEN r.keys_multi ELSE r.keys_fixed

Passes(r, out) == r.fits /\ ~Repeats(r) /\ out = Want(r, tree)

RunKbdRow ==
    /\ at = "rows" /\ kleft > 0
    /\ \E r \in KbdRows, out \in Keys :
          /\ kfailures' = (kfailures \/ ~Passes(r, out))
          /\ undecoded' = (undecoded \/ ~r.fits \/ out # Want(r, tree))
          /\ unearned' = (unearned \/ (Passes(r, out) /\ Tagged(r, tree)
                                         /\ Want(r, Credit(r, tree) - 1) = Want(r, tree)))
    /\ kleft' = kleft - 1
    /\ UNCHANGED <<at, tree, shared>>

(***************************************************************************)
(* check_keyboard_slots: the keyboards a descriptor fills, the report ID    *)
(* each claims, and what get_keyboard() answers for the IDs bound to the    *)
(* keyboard receiver, all up to the firmware.                              *)
(***************************************************************************)
Slots == 1..MaxKeyboards
InUse(num) == { k \in Slots : k <= num }

Misresolved(bound, claims, get_keyboard) == { rid \in bound : claims[get_keyboard[rid]] # rid }

ClaimedTwice(num, claims) == \E a, b \in InUse(num) : a < b /\ claims[a] = claims[b]

CheckSlots ==
    /\ at = "slots" /\ kleft > 0
    /\ \E num \in 0..MaxKeyboards + 1, bound \in SUBSET Rids,
          claims \in [Slots -> Rids], get_keyboard \in [Rids -> Slots] :
          /\ kfailures' = (kfailures \/ Misresolved(bound, claims, get_keyboard) # {}
                                     \/ ClaimedTwice(num, claims))
          /\ shared' = \/ shared
                       \/ \E r1, r2 \in bound : r1 # r2 /\ get_keyboard[r1] = get_keyboard[r2]
                       \/ \E a, b \in InUse(num) : a # b /\ claims[a] = claims[b]
    /\ kleft' = kleft - 1
    /\ UNCHANGED <<at, tree, undecoded, unearned>>

\* The slots are checked on a tree that has one per collection.
ToSlots ==
    /\ at = "rows" /\ tree >= 2 /\ at' = "slots"
    /\ UNCHANGED <<tree, kfailures, kleft, undecoded, unearned, shared>>

KExit ==
    /\ at = "slots" \/ (at = "rows" /\ tree < 2)
    /\ at' = "exit"
    /\ UNCHANGED <<tree, kfailures, kleft, undecoded, unearned, shared>>

KNext == Build \/ RunKbdRow \/ ToSlots \/ CheckSlots \/ KExit

KSpec == KInit /\ [][KNext]_kvars

(***************************************************************************)
(* Properties                                                              *)
(***************************************************************************)
\* A pass says what it seems to say.  Every row was run and decoded to the answer of the
\* tree under test; a row that credits a fix would have come out differently on the tree of
\* the lineage just before that fix; and with a keyboard per collection no two report IDs
\* share one, nor do two keyboards claim one ID, so get_keyboard's answer cannot depend on
\* the order of its search.
KbdPassIsEarned == at = "exit" /\ ~kfailures => ~undecoded /\ ~unearned /\ ~shared
==============================================================================

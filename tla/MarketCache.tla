----------------------------- MODULE MarketCache ----------------------------
(***************************************************************************)
(* The halt flag of one symbol in market_data.price_cache, shared by every *)
(* task that trades it.  A reader takes the time, looks at the entry, and  *)
(* asks the broker when there is none or it is too old; while it waits,    *)
(* others do the same, and whoever is answered last is the one remembered. *)
(* The prices and the market event are kept in the same way.               *)
(*                                                                         *)
(* Time is counted in whole steps: an age is the number of steps since the *)
(* time an entry or a reader took, and stays at MaxAge once it reaches it. *)
(***************************************************************************)
EXTENDS Naturals

CONSTANTS
  Readers,  \* the tasks that read the cache
  Ttl,      \* _HALT_TTL
  MaxAge,   \* bound of the ages
  NoAge     \* no entry, no reader waiting

ASSUME AgesAssumption == Ttl \in Nat /\ MaxAge \in Nat /\ Ttl <= MaxAge
ASSUME NoAgeAssumption == NoAge \notin Nat

Ages == 0..MaxAge
Older(age) == IF age \in Nat /\ age < MaxAge THEN age + 1 ELSE age

(* Definitions named Slip... are plausible slips of the code they precede. *)
(* No specification uses them: each is a mutant that a property must catch.*)

VARIABLES
  halted,   \* whether the broker reports a halt of the symbol
  ago,      \* history: how long ago it last reported none, and one
  entry,    \* _halt[symbol]: when its reader took the time, and the answer
  fetch     \* the readers that wait: when they took the time, and their answer

market == <<halted, ago>>
cache == <<entry, fetch>>

Entry(age, value) == [age |-> age, value |-> value]
NoEntry == Entry(NoAge, FALSE)
Fetch(age, answered, value) == [age |-> age, answered |-> answered, value |-> value]
NoFetch == Fetch(NoAge, FALSE, FALSE)

CacheInit ==
  /\ halted = FALSE
  /\ ago = [v \in BOOLEAN |-> IF v THEN MaxAge ELSE 0]
  /\ entry = NoEntry
  /\ fetch = [r \in Readers |-> NoFetch]

Waiting(r) == fetch[r].age # NoAge

(* `if cached and now - cached[0] < _HALT_TTL: return cached[1]`           *)
SlipHit == entry.age # NoAge
Hit == entry.age # NoAge /\ entry.age < Ttl

Asks(r) ==
  /\ ~Hit
  /\ fetch' = [fetch EXCEPT ![r] = Fetch(0, FALSE, FALSE)]
  /\ UNCHANGED entry

(* The broker makes up its answer, some time before the reader has it.     *)
AnswerMade(r) ==
  /\ Waiting(r) /\ ~fetch[r].answered
  /\ fetch' = [fetch EXCEPT ![r] = Fetch(@.age, TRUE, halted)]
  /\ UNCHANGED <<market, entry>>

(* `self._halt[symbol] = (now, halted)`, with the now of before the call   *)
SlipRemembers(r) == entry' = Entry(0, fetch[r].value)
Remembers(r) == entry' = Entry(fetch[r].age, fetch[r].value)

Stores(r) ==
  /\ Waiting(r) /\ fetch[r].answered
  /\ Remembers(r)
  /\ fetch' = [fetch EXCEPT ![r] = NoFetch]

(* The call raises, or its task is cancelled.                              *)
StopsWaiting(r) ==
  /\ fetch' = [fetch EXCEPT ![r] = NoFetch]
  /\ UNCHANGED entry

MarketFlips ==
  /\ halted' = ~halted
  /\ ago' = [ago EXCEPT ![~halted] = 0]
  /\ UNCHANGED cache

TimePasses ==
  /\ ago' = [v \in BOOLEAN |-> IF v = halted THEN 0 ELSE Older(ago[v])]
  /\ entry' = [entry EXCEPT !.age = Older(@)]
  /\ fetch' = [r \in Readers |-> [fetch[r] EXCEPT !.age = Older(@)]]
  /\ UNCHANGED halted

-----------------------------------------------------------------------------
(* Properties                                                              *)

CacheTypes ==
  /\ halted \in BOOLEAN /\ ago \in [BOOLEAN -> Ages]
  /\ entry \in [age : Ages \cup {NoAge}, value : BOOLEAN]
  /\ fetch \in [Readers -> [age : Ages \cup {NoAge}, answered : BOOLEAN, value : BOOLEAN]]

(* The cache never makes an answer look younger than it is: what it gives  *)
(* out was true no longer ago than its age, although two readers that miss *)
(* together overwrite each other's answers in any order (market_data.py:71)*)
NeverYounger == entry.age # NoAge => ago[entry.value] <= entry.age
=============================================================================

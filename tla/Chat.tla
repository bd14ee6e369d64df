-------------------------------- MODULE Chat --------------------------------
(***************************************************************************)
(* Inbound chat: handleText() of LBBNet/Packets/Chat.cpp, which drops what *)
(* is not ordinary chat, what is empty once sanitized, and what is above   *)
(* ChatMaxInWindow messages per ChatWindowMs, and broadcasts the rest.     *)
(*                                                                         *)
(* The code compares the clock with chatWindowStartMs, and only asks       *)
(* whether their difference exceeds ChatWindowMs.  The model keeps that    *)
(* difference, windowAge, up to the first value that does, so that the     *)
(* clock needs no bound.                                                   *)
(***************************************************************************)
EXTENDS Naturals, Sequences, FiniteSets

CONSTANTS Players, ChatWindowMs, ChatMaxInWindow

ASSUME ChatAssumption == ChatWindowMs \in Nat \ {0} /\ ChatMaxInWindow \in Nat \ {0}

VARIABLES clientStates,   \* player -> its session
          said            \* history: player -> ages of its messages that went out
                          \* in the last ChatWindowMs of its session, oldest first

chatVars == <<clientStates, said>>

Expired == ChatWindowMs + 1

\* What a message is once sanitizeChat() and the type have been looked at.
Contents == {"words", "blank", "notChat"}

ChatTypeOK ==
  /\ clientStates \in [Players -> [spawned : BOOLEAN, windowAge : 0..Expired,
                                   chatWindowCount : 0..(ChatMaxInWindow + 1)]]
  /\ said \in [Players -> Seq(0..ChatWindowMs)]

\* chatWindowStartMs is 0 at first: the age is the clock's.
FreshGuard(age) == [spawned |-> FALSE, windowAge |-> age, chatWindowCount |-> 0]

ChatInit ==
  /\ \E age \in 0..Expired : clientStates = [p \in Players |-> FreshGuard(age)]
  /\ said = [p \in Players |-> <<>>]

-----------------------------------------------------------------------------
(* The guard: what a message makes of the session of its sender. *)

\* The count goes on above the limit; the model stops it one above.
Counted(s) ==
  [s EXCEPT !.chatWindowCount = IF @ > ChatMaxInWindow THEN @ ELSE @ + 1]

\* Mutant: the window starts again, the count does not.
KeepsCount(s) ==
  Counted(IF s.windowAge > ChatWindowMs THEN [s EXCEPT !.windowAge = 0] ELSE s)

\* Mutant: any pause ends the window.
ShortWindow(s) ==
  Counted(IF s.windowAge > 0 THEN [s EXCEPT !.windowAge = 0, !.chatWindowCount = 0] ELSE s)

\* Mutant: a dropped message starts the window again.
Penalty(s) ==
  LET c == Counted(IF s.windowAge > ChatWindowMs
                   THEN [s EXCEPT !.windowAge = 0, !.chatWindowCount = 0] ELSE s)
  IN  IF c.chatWindowCount > ChatMaxInWindow THEN [c EXCEPT !.windowAge = 0] ELSE c

ChatGuard(s) ==
  Counted(IF s.windowAge > ChatWindowMs
          THEN [s EXCEPT !.windowAge = 0, !.chatWindowCount = 0] ELSE s)

handleText(p, content) ==
  LET s == ChatGuard(clientStates[p])
  IN  IF content # "words" \/ ~clientStates[p].spawned
      THEN UNCHANGED chatVars
      ELSE /\ clientStates' = [clientStates EXCEPT ![p] = s]
           /\ said' = IF s.chatWindowCount > ChatMaxInWindow THEN said
                      ELSE [said EXCEPT ![p] = Append(@, 0)]

-----------------------------------------------------------------------------
(* The life of the session, and time *)

\* announcePlayerJoined()
Spawn(p) ==
  /\ ~clientStates[p].spawned
  /\ clientStates' = [clientStates EXCEPT ![p].spawned = TRUE]
  /\ UNCHANGED said

\* The session is erased, and its guard with it; a new one has a fresh guard.
Leave(p) ==
  /\ clientStates[p].spawned
  /\ \E age \in 0..Expired : clientStates' = [clientStates EXCEPT ![p] = FreshGuard(age)]
  /\ said' = [said EXCEPT ![p] = <<>>]

\* How many messages are about to be older than the last ChatWindowMs, and what is
\* left when time passes.
Outdated(ages) == Cardinality({i \in DOMAIN ages : ages[i] = ChatWindowMs})
Older(ages) ==
  LET recent == SubSeq(ages, Outdated(ages) + 1, Len(ages))
  IN  [i \in DOMAIN recent |-> recent[i] + 1]

Tick ==
  /\ clientStates' = [p \in Players |->
       [clientStates[p] EXCEPT !.windowAge = IF @ = Expired THEN @ ELSE @ + 1]]
  /\ said' = [p \in Players |-> Older(said[p])]

ChatNext ==
  \/ \E p \in Players : \/ \E content \in Contents : handleText(p, content)
                        \/ Spawn(p) \/ Leave(p)
  \/ Tick

ChatSpec == ChatInit /\ [][ChatNext]_chatVars

\* Time passes.  The players of ChattySpec keep writing, faster than the limit
\* or not.
ChattySpec == ChatSpec /\ WF_chatVars(Tick) /\ \A p \in Players : WF_chatVars(handleText(p, "words"))

-----------------------------------------------------------------------------
(* Properties *)

\* At most twice the limit goes out in any ChatWindowMs, as at most two windows
\* of the guard touch it.
FloodBounded == \A p \in Players : Len(said[p]) <= 2 * ChatMaxInWindow

\* The guard is closed to a player only while the limit really went out in the
\* last ChatWindowMs: nobody is silenced for messages long past.
Closed(s) == s.chatWindowCount >= ChatMaxInWindow /\ s.windowAge <= ChatWindowMs
ClosedOnlyToFloods ==
  \A p \in Players :
    Closed(clientStates[p]) => Len(said[p]) >= ChatMaxInWindow

\* A player who never stops writing, however fast, is heard again and again:
\* what is dropped does not prolong the window.
KeepsBeingHeard ==
  \A p \in Players : []<>(clientStates[p].spawned => said[p] # <<>>)
=============================================================================

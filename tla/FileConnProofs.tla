--------------------------- MODULE FileConnProofs ---------------------------
(***************************************************************************)
(* Proofs about FileConn, for any number of concurrent and cancelled calls.*)
(***************************************************************************)
EXTENDS FileConn, TLAPS

\* Which steps a call of each kind takes: a function, and a Quit, runs only from the
\* moment withContext starts it, and the copy loop only in a stream.
Phases ==
  \A c \in Calls :
    /\ pc[c] \in {"new", "wait"} \cup InGetConn \cup {"check", "closing"} =>
         fn[c] = "none" /\ quit[c] = "none"
    /\ pc[c] \in {"wait", "noop", "check", "run", "closing"} => Shared(c)
    /\ fn[c] \in Using => Shared(c) /\ pc[c] \in {"run", "returned", "done"}
    /\ fn[c] \in Streaming => ~Shared(c) /\ on[c] = c

\* A connection that has not been logged in to is nobody's, and that of a stream is
\* the stream's alone.
Private(k) == client # k /\ \A c \in Calls \ {k} : on[c] # k

Ownership ==
  \A k \in Calls :
    /\ pc[k] \in {"new", "wait", "noop", "dial", "login"} => Private(k) /\ on[k] = None
    /\ ~Shared(k) => Private(k)

\* While f.mu is held f.client changes only in the hands of its holder: none when it
\* dials, and the connection in use after that.  A function that works although its
\* call does not wait for it has a connection that is not f.client any more.
Holder ==
  \A c \in Calls :
    /\ pc[c] \in {"dial", "login"} /\ Shared(c) => client = None
    /\ pc[c] = "noop" => client # None
    /\ pc[c] \in {"check", "run"} => on[c] = client /\ client # None
    /\ fn[c] \in Using => on[c] # None /\ (pc[c] = "run" \/ on[c] # client)
    /\ quit[c] = "quit" => on[c] # None

\* Two functions at work have two connections.
Apart == \A c, d \in Calls : c # d /\ fn[c] \in Using /\ fn[d] \in Using => on[c] # on[d]

ConnInv == Phases /\ Ownership /\ Holder /\ Apart

\* What is renamed, and what ends a stream, is whole.
WholeInv ==
  /\ NothingPartial
  /\ \A c \in Calls : fn[c] = "commit" => c \in complete

EofInv ==
  /\ TruncationIsSeen
  /\ \A c \in Calls : fn[c] \in {"quit", "close"} /\ reader[c] = "open" => c \in complete

-----------------------------------------------------------------------------
\* The initial state has the types.
LEMMA InitType == Init => TypeOK
BY NoneAssumption DEF Init, TypeOK, Ops, Holding, InGetConn, Using, Streaming, NoStatus, Shared

\* Every step keeps the types, and f.mu with its holder.
LEMMA NextType ==
  ASSUME TypeOK, Phases, [Next]_vars
  PROVE  TypeOK'
<1> USE DEF connVars, callVars, outVars, TypeOK, Ops, Shared, Holding, InGetConn, Using, Streaming, NoStatus
<1>1. ASSUME NEW c \in Calls, Begin(c) PROVE TypeOK'
  BY <1>1, NoneAssumption DEF Begin, Goto
<1>2. ASSUME NEW c \in Calls, Cancel(c) PROVE TypeOK'
  BY <1>2, NoneAssumption DEF Cancel
<1>3. ASSUME NEW c \in Calls, Lock(c) PROVE TypeOK'
  BY <1>3, NoneAssumption DEF Lock, Goto, Phases
<1>4. ASSUME NEW c \in Calls, NoopAnswers(c) PROVE TypeOK'
  BY <1>4, NoneAssumption DEF NoopAnswers, Goto
<1>5. ASSUME NEW c \in Calls, NoopFails(c) PROVE TypeOK'
  BY <1>5, NoneAssumption DEF NoopFails, Goto
<1>6. ASSUME NEW c \in Calls, CloseShared(c) PROVE TypeOK'
  BY <1>6, NoneAssumption DEF CloseShared, Return, Goto
<1>7. ASSUME NEW c \in Calls, DialFails(c) PROVE TypeOK'
  BY <1>7, NoneAssumption DEF DialFails, Return, Goto
<1>8. ASSUME NEW c \in Calls, DialSucceeds(c) PROVE TypeOK'
  BY <1>8, NoneAssumption DEF DialSucceeds, Goto
<1>9. ASSUME NEW c \in Calls, LoginFails(c) PROVE TypeOK'
  BY <1>9, NoneAssumption DEF LoginFails, Return, Goto
<1>10. ASSUME NEW c \in Calls, LoginShared(c) PROVE TypeOK'
  BY <1>10, NoneAssumption DEF LoginShared, Goto
<1>11. ASSUME NEW c \in Calls, LoginOwn(c) PROVE TypeOK'
  BY <1>11, NoneAssumption DEF LoginOwn, Return, Goto
<1>12. ASSUME NEW c \in Calls, CheckContext(c) PROVE TypeOK'
  BY <1>12, NoneAssumption DEF CheckContext, Return, Goto
<1>13. ASSUME NEW c \in Calls, FnAnswers(c) PROVE TypeOK'
  BY <1>13, NoneAssumption DEF FnAnswers, Return, Goto
<1>14. ASSUME NEW c \in Calls, Abandon(c) PROVE TypeOK'
  BY <1>14, NoneAssumption DEF Abandon, Return, Goto
<1>15. ASSUME NEW c \in Calls, ResetStatus(c) PROVE TypeOK'
  BY <1>15, NoneAssumption DEF ResetStatus, Goto
<1>16. ASSUME NEW c \in Calls, Quit(c) PROVE TypeOK'
  BY <1>16, NoneAssumption DEF Quit
<1>17. ASSUME NEW c \in Calls, Drain(c) PROVE TypeOK'
  BY <1>17, NoneAssumption DEF Drain
<1>18. ASSUME NEW c \in Calls, WorkEnds(c) PROVE TypeOK'
  BY <1>18, NoneAssumption DEF WorkEnds, FnGoto
<1>19. ASSUME NEW c \in Calls, Progress(c) PROVE TypeOK'
  BY <1>19, NoneAssumption DEF Progress
<1>20. ASSUME NEW c \in Calls, CreateTemp(c) PROVE TypeOK'
  BY <1>20, NoneAssumption DEF CreateTemp, FnGoto
<1>21. ASSUME NEW c \in Calls, RetrieveSucceeds(c) PROVE TypeOK'
  BY <1>21, NoneAssumption DEF RetrieveSucceeds, FnGoto
<1>22. ASSUME NEW c \in Calls, RetrieveFails(c) PROVE TypeOK'
  BY <1>22, NoneAssumption DEF RetrieveFails, FnGoto
<1>23. ASSUME NEW c \in Calls, Rename(c) PROVE TypeOK'
  BY <1>23, NoneAssumption DEF Rename, FnGoto
<1>24. ASSUME NEW c \in Calls, RenameFails(c) PROVE TypeOK'
  BY <1>24, NoneAssumption DEF RenameFails, FnGoto
<1>25. ASSUME NEW c \in Calls, RemoveTemp(c) PROVE TypeOK'
  BY <1>25, NoneAssumption DEF RemoveTemp, FnGoto
<1>26. ASSUME NEW c \in Calls, ServeSucceeds(c) PROVE TypeOK'
  BY <1>26, NoneAssumption DEF ServeSucceeds, FnGoto
<1>27. ASSUME NEW c \in Calls, ServeFails(c) PROVE TypeOK'
  BY <1>27, NoneAssumption DEF ServeFails, FnGoto
<1>28. ASSUME NEW c \in Calls, ServeQuit(c) PROVE TypeOK'
  BY <1>28, NoneAssumption DEF ServeQuit, FnGoto
<1>29. ASSUME NEW c \in Calls, ServeClose(c) PROVE TypeOK'
  BY <1>29, NoneAssumption DEF ServeClose, FnGoto
<1>30. ASSUME NEW c \in Calls, AfterFunc(c) PROVE TypeOK'
  BY <1>30, NoneAssumption DEF AfterFunc
<1>31. ASSUME NEW c \in Calls, CloseReader(c) PROVE TypeOK'
  BY <1>31, NoneAssumption DEF CloseReader
<1>32. CASE UNCHANGED vars
  BY <1>32 DEF vars
<1> QED
  BY <1>1, <1>2, <1>3, <1>4, <1>5, <1>6, <1>7, <1>8, <1>9, <1>10, <1>11, <1>12, <1>13,
     <1>14, <1>15, <1>16, <1>17, <1>18, <1>19, <1>20, <1>21, <1>22, <1>23, <1>24, <1>25,
     <1>26, <1>27, <1>28, <1>29, <1>30, <1>31, <1>32
  DEF Next, GetConn, WithContext, Function, Serve

\* The connection invariant holds initially.
LEMMA InitConn == Init => ConnInv
BY NoneAssumption DEF Init, ConnInv, Phases, Ownership, Private, Holder, Apart, Shared, InGetConn, Using, Streaming

\* Every step keeps Phases.
LEMMA NextPhases ==
  ASSUME TypeOK, Phases, [Next]_vars
  PROVE  Phases'
<1> USE DEF connVars, callVars, outVars, TypeOK, Phases, Shared, Ops, Holding, InGetConn, Using, Streaming
<1>1. ASSUME NEW c \in Calls, Begin(c) PROVE Phases'
  BY <1>1 DEF Begin, Goto
<1>2. ASSUME NEW c \in Calls, Cancel(c) PROVE Phases'
  BY <1>2 DEF Cancel
<1>3. ASSUME NEW c \in Calls, Lock(c) PROVE Phases'
  BY <1>3 DEF Lock, Goto
<1>4. ASSUME NEW c \in Calls, NoopAnswers(c) PROVE Phases'
  BY <1>4 DEF NoopAnswers, Goto
<1>5. ASSUME NEW c \in Calls, NoopFails(c) PROVE Phases'
  BY <1>5 DEF NoopFails, Goto
<1>6. ASSUME NEW c \in Calls, CloseShared(c) PROVE Phases'
  BY <1>6 DEF CloseShared, Return, Goto
<1>7. ASSUME NEW c \in Calls, DialFails(c) PROVE Phases'
  BY <1>7 DEF DialFails, Return, Goto
<1>8. ASSUME NEW c \in Calls, DialSucceeds(c) PROVE Phases'
  BY <1>8 DEF DialSucceeds, Goto
<1>9. ASSUME NEW c \in Calls, LoginFails(c) PROVE Phases'
  BY <1>9 DEF LoginFails, Return, Goto
<1>10. ASSUME NEW c \in Calls, LoginShared(c) PROVE Phases'
  BY <1>10 DEF LoginShared, Goto
<1>11. ASSUME NEW c \in Calls, LoginOwn(c) PROVE Phases'
  BY <1>11 DEF LoginOwn, Return, Goto
<1>12. ASSUME NEW c \in Calls, CheckContext(c) PROVE Phases'
  BY <1>12 DEF CheckContext, Return, Goto
<1>13. ASSUME NEW c \in Calls, FnAnswers(c) PROVE Phases'
  BY <1>13 DEF FnAnswers, Return, Goto
<1>14. ASSUME NEW c \in Calls, Abandon(c) PROVE Phases'
  BY <1>14 DEF Abandon, Return, Goto
<1>15. ASSUME NEW c \in Calls, ResetStatus(c) PROVE Phases'
  BY <1>15 DEF ResetStatus, Goto
<1>16. ASSUME NEW c \in Calls, Quit(c) PROVE Phases'
  BY <1>16 DEF Quit
<1>17. ASSUME NEW c \in Calls, Drain(c) PROVE Phases'
  BY <1>17 DEF Drain
<1>18. ASSUME NEW c \in Calls, WorkEnds(c) PROVE Phases'
  BY <1>18 DEF WorkEnds, FnGoto
<1>19. ASSUME NEW c \in Calls, Progress(c) PROVE Phases'
  BY <1>19 DEF Progress
<1>20. ASSUME NEW c \in Calls, CreateTemp(c) PROVE Phases'
  BY <1>20 DEF CreateTemp, FnGoto
<1>21. ASSUME NEW c \in Calls, RetrieveSucceeds(c) PROVE Phases'
  BY <1>21 DEF RetrieveSucceeds, FnGoto
<1>22. ASSUME NEW c \in Calls, RetrieveFails(c) PROVE Phases'
  BY <1>22 DEF RetrieveFails, FnGoto
<1>23. ASSUME NEW c \in Calls, Rename(c) PROVE Phases'
  BY <1>23 DEF Rename, FnGoto
<1>24. ASSUME NEW c \in Calls, RenameFails(c) PROVE Phases'
  BY <1>24 DEF RenameFails, FnGoto
<1>25. ASSUME NEW c \in Calls, RemoveTemp(c) PROVE Phases'
  BY <1>25 DEF RemoveTemp, FnGoto
<1>26. ASSUME NEW c \in Calls, ServeSucceeds(c) PROVE Phases'
  BY <1>26 DEF ServeSucceeds, FnGoto
<1>27. ASSUME NEW c \in Calls, ServeFails(c) PROVE Phases'
  BY <1>27 DEF ServeFails, FnGoto
<1>28. ASSUME NEW c \in Calls, ServeQuit(c) PROVE Phases'
  BY <1>28 DEF ServeQuit, FnGoto
<1>29. ASSUME NEW c \in Calls, ServeClose(c) PROVE Phases'
  BY <1>29 DEF ServeClose, FnGoto
<1>30. ASSUME NEW c \in Calls, AfterFunc(c) PROVE Phases'
  BY <1>30 DEF AfterFunc
<1>31. ASSUME NEW c \in Calls, CloseReader(c) PROVE Phases'
  BY <1>31 DEF CloseReader
<1>32. CASE UNCHANGED vars
  BY <1>32 DEF vars
<1> QED
  BY <1>1, <1>2, <1>3, <1>4, <1>5, <1>6, <1>7, <1>8, <1>9, <1>10, <1>11, <1>12, <1>13,
     <1>14, <1>15, <1>16, <1>17, <1>18, <1>19, <1>20, <1>21, <1>22, <1>23, <1>24, <1>25,
     <1>26, <1>27, <1>28, <1>29, <1>30, <1>31, <1>32
  DEF Next, GetConn, WithContext, Function, Serve

\* Every step keeps Ownership.
LEMMA NextOwnership ==
  ASSUME TypeOK, Phases, Ownership, [Next]_vars
  PROVE  Ownership'
<1> USE DEF connVars, callVars, outVars, TypeOK, Ownership, Private, Shared, Ops, Holding, InGetConn, Using, Streaming
<1>1. ASSUME NEW c \in Calls, Begin(c) PROVE Ownership'
  BY <1>1, NoneAssumption DEF Begin, Goto
<1>2. ASSUME NEW c \in Calls, Cancel(c) PROVE Ownership'
  BY <1>2, NoneAssumption DEF Cancel
<1>3. ASSUME NEW c \in Calls, Lock(c) PROVE Ownership'
  BY <1>3, NoneAssumption DEF Lock, Goto
<1>4. ASSUME NEW c \in Calls, NoopAnswers(c) PROVE Ownership'
  BY <1>4, NoneAssumption DEF NoopAnswers, Goto
<1>5. ASSUME NEW c \in Calls, NoopFails(c) PROVE Ownership'
  BY <1>5, NoneAssumption DEF NoopFails, Goto
<1>6. ASSUME NEW c \in Calls, CloseShared(c) PROVE Ownership'
  BY <1>6, NoneAssumption DEF CloseShared, Return, Goto
<1>7. ASSUME NEW c \in Calls, DialFails(c) PROVE Ownership'
  BY <1>7, NoneAssumption DEF DialFails, Return, Goto
<1>8. ASSUME NEW c \in Calls, DialSucceeds(c) PROVE Ownership'
  BY <1>8, NoneAssumption DEF DialSucceeds, Goto
<1>9. ASSUME NEW c \in Calls, LoginFails(c) PROVE Ownership'
  BY <1>9, NoneAssumption DEF LoginFails, Return, Goto
<1>10. ASSUME NEW c \in Calls, LoginShared(c) PROVE Ownership'
  BY <1>10, NoneAssumption DEF LoginShared, Goto
<1>11. ASSUME NEW c \in Calls, LoginOwn(c) PROVE Ownership'
  BY <1>11, NoneAssumption DEF LoginOwn, Return, Goto, Phases
<1>12. ASSUME NEW c \in Calls, CheckContext(c) PROVE Ownership'
  BY <1>12, NoneAssumption DEF CheckContext, Return, Goto
<1>13. ASSUME NEW c \in Calls, FnAnswers(c) PROVE Ownership'
  BY <1>13, NoneAssumption DEF FnAnswers, Return, Goto
<1>14. ASSUME NEW c \in Calls, Abandon(c) PROVE Ownership'
  BY <1>14, NoneAssumption DEF Abandon, Return, Goto
<1>15. ASSUME NEW c \in Calls, ResetStatus(c) PROVE Ownership'
  BY <1>15, NoneAssumption DEF ResetStatus, Goto
<1>16. ASSUME NEW c \in Calls, Quit(c) PROVE Ownership'
  BY <1>16, NoneAssumption DEF Quit
<1>17. ASSUME NEW c \in Calls, Drain(c) PROVE Ownership'
  BY <1>17, NoneAssumption DEF Drain
<1>18. ASSUME NEW c \in Calls, WorkEnds(c) PROVE Ownership'
  BY <1>18, NoneAssumption DEF WorkEnds, FnGoto
<1>19. ASSUME NEW c \in Calls, Progress(c) PROVE Ownership'
  BY <1>19, NoneAssumption DEF Progress
<1>20. ASSUME NEW c \in Calls, CreateTemp(c) PROVE Ownership'
  BY <1>20, NoneAssumption DEF CreateTemp, FnGoto
<1>21. ASSUME NEW c \in Calls, RetrieveSucceeds(c) PROVE Ownership'
  BY <1>21, NoneAssumption DEF RetrieveSucceeds, FnGoto
<1>22. ASSUME NEW c \in Calls, RetrieveFails(c) PROVE Ownership'
  BY <1>22, NoneAssumption DEF RetrieveFails, FnGoto
<1>23. ASSUME NEW c \in Calls, Rename(c) PROVE Ownership'
  BY <1>23, NoneAssumption DEF Rename, FnGoto
<1>24. ASSUME NEW c \in Calls, RenameFails(c) PROVE Ownership'
  BY <1>24, NoneAssumption DEF RenameFails, FnGoto
<1>25. ASSUME NEW c \in Calls, RemoveTemp(c) PROVE Ownership'
  BY <1>25, NoneAssumption DEF RemoveTemp, FnGoto
<1>26. ASSUME NEW c \in Calls, ServeSucceeds(c) PROVE Ownership'
  BY <1>26, NoneAssumption DEF ServeSucceeds, FnGoto
<1>27. ASSUME NEW c \in Calls, ServeFails(c) PROVE Ownership'
  BY <1>27, NoneAssumption DEF ServeFails, FnGoto
<1>28. ASSUME NEW c \in Calls, ServeQuit(c) PROVE Ownership'
  BY <1>28, NoneAssumption DEF ServeQuit, FnGoto
<1>29. ASSUME NEW c \in Calls, ServeClose(c) PROVE Ownership'
  BY <1>29, NoneAssumption DEF ServeClose, FnGoto
<1>30. ASSUME NEW c \in Calls, AfterFunc(c) PROVE Ownership'
  BY <1>30, NoneAssumption DEF AfterFunc
<1>31. ASSUME NEW c \in Calls, CloseReader(c) PROVE Ownership'
  BY <1>31, NoneAssumption DEF CloseReader
<1>32. CASE UNCHANGED vars
  BY <1>32 DEF vars
<1> QED
  BY <1>1, <1>2, <1>3, <1>4, <1>5, <1>6, <1>7, <1>8, <1>9, <1>10, <1>11, <1>12, <1>13,
     <1>14, <1>15, <1>16, <1>17, <1>18, <1>19, <1>20, <1>21, <1>22, <1>23, <1>24, <1>25,
     <1>26, <1>27, <1>28, <1>29, <1>30, <1>31, <1>32
  DEF Next, GetConn, WithContext, Function, Serve

\* Every step keeps Holder: who changes f.client holds f.mu.
LEMMA NextHolder ==
  ASSUME TypeOK, Phases, Ownership, Holder, [Next]_vars
  PROVE  Holder'
<1> USE DEF connVars, callVars, outVars, TypeOK, Phases, Holder, Shared, Holding, InGetConn, Using, Streaming
<1>1. ASSUME NEW c \in Calls, Begin(c) PROVE Holder'
  BY <1>1, NoneAssumption DEF Begin, Goto
<1>2. ASSUME NEW c \in Calls, Cancel(c) PROVE Holder'
  BY <1>2, NoneAssumption DEF Cancel
<1>3. ASSUME NEW c \in Calls, Lock(c) PROVE Holder'
  BY <1>3, NoneAssumption DEF Lock, Goto
<1>4. ASSUME NEW c \in Calls, NoopAnswers(c) PROVE Holder'
  BY <1>4, NoneAssumption DEF NoopAnswers, Goto
<1>5. ASSUME NEW c \in Calls, NoopFails(c) PROVE Holder'
  BY <1>5, NoneAssumption DEF NoopFails, Goto
<1>6. ASSUME NEW c \in Calls, CloseShared(c) PROVE Holder'
  BY <1>6, NoneAssumption DEF CloseShared, Return, Goto
<1>7. ASSUME NEW c \in Calls, DialFails(c) PROVE Holder'
  BY <1>7, NoneAssumption DEF DialFails, Return, Goto
<1>8. ASSUME NEW c \in Calls, DialSucceeds(c) PROVE Holder'
  BY <1>8, NoneAssumption DEF DialSucceeds, Goto
<1>9. ASSUME NEW c \in Calls, LoginFails(c) PROVE Holder'
  BY <1>9, NoneAssumption DEF LoginFails, Return, Goto
<1>10. ASSUME NEW c \in Calls, LoginShared(c) PROVE Holder'
  BY <1>10, NoneAssumption DEF LoginShared, Goto, Ownership, Private
<1>11. ASSUME NEW c \in Calls, LoginOwn(c) PROVE Holder'
  BY <1>11, NoneAssumption DEF LoginOwn, Return, Goto, Ownership, Private
<1>12. ASSUME NEW c \in Calls, CheckContext(c) PROVE Holder'
  BY <1>12, NoneAssumption DEF CheckContext, Return, Goto
<1>13. ASSUME NEW c \in Calls, FnAnswers(c) PROVE Holder'
  BY <1>13, NoneAssumption DEF FnAnswers, Return, Goto
<1>14. ASSUME NEW c \in Calls, Abandon(c) PROVE Holder'
  BY <1>14, NoneAssumption DEF Abandon, Return, Goto
<1>15. ASSUME NEW c \in Calls, ResetStatus(c) PROVE Holder'
  BY <1>15, NoneAssumption DEF ResetStatus, Goto
<1>16. ASSUME NEW c \in Calls, Quit(c) PROVE Holder'
  BY <1>16, NoneAssumption DEF Quit
<1>17. ASSUME NEW c \in Calls, Drain(c) PROVE Holder'
  BY <1>17, NoneAssumption DEF Drain
<1>18. ASSUME NEW c \in Calls, WorkEnds(c) PROVE Holder'
  BY <1>18, NoneAssumption DEF WorkEnds, FnGoto
<1>19. ASSUME NEW c \in Calls, Progress(c) PROVE Holder'
  BY <1>19, NoneAssumption DEF Progress
<1>20. ASSUME NEW c \in Calls, CreateTemp(c) PROVE Holder'
  BY <1>20, NoneAssumption DEF CreateTemp, FnGoto
<1>21. ASSUME NEW c \in Calls, RetrieveSucceeds(c) PROVE Holder'
  BY <1>21, NoneAssumption DEF RetrieveSucceeds, FnGoto
<1>22. ASSUME NEW c \in Calls, RetrieveFails(c) PROVE Holder'
  BY <1>22, NoneAssumption DEF RetrieveFails, FnGoto
<1>23. ASSUME NEW c \in Calls, Rename(c) PROVE Holder'
  BY <1>23, NoneAssumption DEF Rename, FnGoto
<1>24. ASSUME NEW c \in Calls, RenameFails(c) PROVE Holder'
  BY <1>24, NoneAssumption DEF RenameFails, FnGoto
<1>25. ASSUME NEW c \in Calls, RemoveTemp(c) PROVE Holder'
  BY <1>25, NoneAssumption DEF RemoveTemp, FnGoto
<1>26. ASSUME NEW c \in Calls, ServeSucceeds(c) PROVE Holder'
  BY <1>26, NoneAssumption DEF ServeSucceeds, FnGoto
<1>27. ASSUME NEW c \in Calls, ServeFails(c) PROVE Holder'
  BY <1>27, NoneAssumption DEF ServeFails, FnGoto
<1>28. ASSUME NEW c \in Calls, ServeQuit(c) PROVE Holder'
  BY <1>28, NoneAssumption DEF ServeQuit, FnGoto
<1>29. ASSUME NEW c \in Calls, ServeClose(c) PROVE Holder'
  BY <1>29, NoneAssumption DEF ServeClose, FnGoto
<1>30. ASSUME NEW c \in Calls, AfterFunc(c) PROVE Holder'
  BY <1>30, NoneAssumption DEF AfterFunc
<1>31. ASSUME NEW c \in Calls, CloseReader(c) PROVE Holder'
  BY <1>31, NoneAssumption DEF CloseReader
<1>32. CASE UNCHANGED vars
  BY <1>32 DEF vars
<1> QED
  BY <1>1, <1>2, <1>3, <1>4, <1>5, <1>6, <1>7, <1>8, <1>9, <1>10, <1>11, <1>12, <1>13,
     <1>14, <1>15, <1>16, <1>17, <1>18, <1>19, <1>20, <1>21, <1>22, <1>23, <1>24, <1>25,
     <1>26, <1>27, <1>28, <1>29, <1>30, <1>31, <1>32
  DEF Next, GetConn, WithContext, Function, Serve

\* Every step keeps Apart: a function starts on f.client, which no abandoned one has.
LEMMA NextApart ==
  ASSUME TypeOK, Phases, Holder, Apart, [Next]_vars
  PROVE  Apart'
<1> USE DEF connVars, callVars, outVars, TypeOK, Apart, Using
<1>1. ASSUME NEW c \in Calls, Begin(c) PROVE Apart'
  BY <1>1, NoneAssumption DEF Begin, Goto
<1>2. ASSUME NEW c \in Calls, Cancel(c) PROVE Apart'
  BY <1>2, NoneAssumption DEF Cancel
<1>3. ASSUME NEW c \in Calls, Lock(c) PROVE Apart'
  BY <1>3, NoneAssumption DEF Lock, Goto
<1>4. ASSUME NEW c \in Calls, NoopAnswers(c) PROVE Apart'
  BY <1>4, NoneAssumption DEF NoopAnswers, Goto, Phases
<1>5. ASSUME NEW c \in Calls, NoopFails(c) PROVE Apart'
  BY <1>5, NoneAssumption DEF NoopFails, Goto
<1>6. ASSUME NEW c \in Calls, CloseShared(c) PROVE Apart'
  BY <1>6, NoneAssumption DEF CloseShared, Return, Goto
<1>7. ASSUME NEW c \in Calls, DialFails(c) PROVE Apart'
  BY <1>7, NoneAssumption DEF DialFails, Return, Goto
<1>8. ASSUME NEW c \in Calls, DialSucceeds(c) PROVE Apart'
  BY <1>8, NoneAssumption DEF DialSucceeds, Goto
<1>9. ASSUME NEW c \in Calls, LoginFails(c) PROVE Apart'
  BY <1>9, NoneAssumption DEF LoginFails, Return, Goto
<1>10. ASSUME NEW c \in Calls, LoginShared(c) PROVE Apart'
  BY <1>10, NoneAssumption DEF LoginShared, Goto, Phases, InGetConn
<1>11. ASSUME NEW c \in Calls, LoginOwn(c) PROVE Apart'
  BY <1>11, NoneAssumption DEF LoginOwn, Return, Goto, Phases, InGetConn
<1>12. ASSUME NEW c \in Calls, CheckContext(c) PROVE Apart'
  BY <1>12, NoneAssumption DEF CheckContext, Return, Goto, Phases, Holder, Holding, Shared
<1>13. ASSUME NEW c \in Calls, FnAnswers(c) PROVE Apart'
  BY <1>13, NoneAssumption DEF FnAnswers, Return, Goto
<1>14. ASSUME NEW c \in Calls, Abandon(c) PROVE Apart'
  BY <1>14, NoneAssumption DEF Abandon, Return, Goto
<1>15. ASSUME NEW c \in Calls, ResetStatus(c) PROVE Apart'
  BY <1>15, NoneAssumption DEF ResetStatus, Goto
<1>16. ASSUME NEW c \in Calls, Quit(c) PROVE Apart'
  BY <1>16, NoneAssumption DEF Quit
<1>17. ASSUME NEW c \in Calls, Drain(c) PROVE Apart'
  BY <1>17, NoneAssumption DEF Drain
<1>18. ASSUME NEW c \in Calls, WorkEnds(c) PROVE Apart'
  BY <1>18, NoneAssumption DEF WorkEnds, FnGoto
<1>19. ASSUME NEW c \in Calls, Progress(c) PROVE Apart'
  BY <1>19, NoneAssumption DEF Progress
<1>20. ASSUME NEW c \in Calls, CreateTemp(c) PROVE Apart'
  BY <1>20, NoneAssumption DEF CreateTemp, FnGoto
<1>21. ASSUME NEW c \in Calls, RetrieveSucceeds(c) PROVE Apart'
  BY <1>21, NoneAssumption DEF RetrieveSucceeds, FnGoto
<1>22. ASSUME NEW c \in Calls, RetrieveFails(c) PROVE Apart'
  BY <1>22, NoneAssumption DEF RetrieveFails, FnGoto
<1>23. ASSUME NEW c \in Calls, Rename(c) PROVE Apart'
  BY <1>23, NoneAssumption DEF Rename, FnGoto
<1>24. ASSUME NEW c \in Calls, RenameFails(c) PROVE Apart'
  BY <1>24, NoneAssumption DEF RenameFails, FnGoto
<1>25. ASSUME NEW c \in Calls, RemoveTemp(c) PROVE Apart'
  BY <1>25, NoneAssumption DEF RemoveTemp, FnGoto
<1>26. ASSUME NEW c \in Calls, ServeSucceeds(c) PROVE Apart'
  BY <1>26, NoneAssumption DEF ServeSucceeds, FnGoto
<1>27. ASSUME NEW c \in Calls, ServeFails(c) PROVE Apart'
  BY <1>27, NoneAssumption DEF ServeFails, FnGoto
<1>28. ASSUME NEW c \in Calls, ServeQuit(c) PROVE Apart'
  BY <1>28, NoneAssumption DEF ServeQuit, FnGoto
<1>29. ASSUME NEW c \in Calls, ServeClose(c) PROVE Apart'
  BY <1>29, NoneAssumption DEF ServeClose, FnGoto
<1>30. ASSUME NEW c \in Calls, AfterFunc(c) PROVE Apart'
  BY <1>30, NoneAssumption DEF AfterFunc
<1>31. ASSUME NEW c \in Calls, CloseReader(c) PROVE Apart'
  BY <1>31, NoneAssumption DEF CloseReader
<1>32. CASE UNCHANGED vars
  BY <1>32 DEF vars
<1> QED
  BY <1>1, <1>2, <1>3, <1>4, <1>5, <1>6, <1>7, <1>8, <1>9, <1>10, <1>11, <1>12, <1>13,
     <1>14, <1>15, <1>16, <1>17, <1>18, <1>19, <1>20, <1>21, <1>22, <1>23, <1>24, <1>25,
     <1>26, <1>27, <1>28, <1>29, <1>30, <1>31, <1>32
  DEF Next, GetConn, WithContext, Function, Serve

\* Every step keeps NoConnectionLost.
LEMMA NextLost ==
  ASSUME TypeOK, ConnInv, NoConnectionLost, [Next]_vars
  PROVE  NoConnectionLost'
<1> USE DEF connVars, callVars, outVars, TypeOK, NoConnectionLost
<1>1. ASSUME NEW c \in Calls, Begin(c) PROVE NoConnectionLost'
  BY <1>1, NoneAssumption DEF Begin, Goto, ConnInv, Phases
<1>2. ASSUME NEW c \in Calls, Cancel(c) PROVE NoConnectionLost'
  BY <1>2, NoneAssumption DEF Cancel
<1>3. ASSUME NEW c \in Calls, Lock(c) PROVE NoConnectionLost'
  BY <1>3, NoneAssumption DEF Lock, Goto, ConnInv, Holder
<1>4. ASSUME NEW c \in Calls, NoopAnswers(c) PROVE NoConnectionLost'
  BY <1>4, NoneAssumption DEF NoopAnswers, Goto, ConnInv, Phases, InGetConn
<1>5. ASSUME NEW c \in Calls, NoopFails(c) PROVE NoConnectionLost'
  BY <1>5, NoneAssumption DEF NoopFails, Goto, ConnInv, Holder, Shared
<1>6. ASSUME NEW c \in Calls, CloseShared(c) PROVE NoConnectionLost'
  BY <1>6, NoneAssumption DEF CloseShared, Return, Goto
<1>7. ASSUME NEW c \in Calls, DialFails(c) PROVE NoConnectionLost'
  BY <1>7, NoneAssumption DEF DialFails, Return, Goto
<1>8. ASSUME NEW c \in Calls, DialSucceeds(c) PROVE NoConnectionLost'
  BY <1>8, NoneAssumption DEF DialSucceeds, Goto
<1>9. ASSUME NEW c \in Calls, LoginFails(c) PROVE NoConnectionLost'
  BY <1>9, NoneAssumption DEF LoginFails, Return, Goto
<1>10. ASSUME NEW c \in Calls, LoginShared(c) PROVE NoConnectionLost'
  BY <1>10, NoneAssumption DEF LoginShared, Goto, ConnInv, Holder, Shared, Phases, InGetConn
<1>11. ASSUME NEW c \in Calls, LoginOwn(c) PROVE NoConnectionLost'
  BY <1>11, NoneAssumption DEF LoginOwn, Return, Goto, ConnInv, Phases, InGetConn
<1>12. ASSUME NEW c \in Calls, CheckContext(c) PROVE NoConnectionLost'
  BY <1>12, NoneAssumption DEF CheckContext, Return, Goto, ConnInv, Phases
<1>13. ASSUME NEW c \in Calls, FnAnswers(c) PROVE NoConnectionLost'
  BY <1>13, NoneAssumption DEF FnAnswers, Return, Goto
<1>14. ASSUME NEW c \in Calls, Abandon(c) PROVE NoConnectionLost'
  BY <1>14, NoneAssumption DEF Abandon, Return, Goto, ConnInv, Holder, Shared
<1>15. ASSUME NEW c \in Calls, ResetStatus(c) PROVE NoConnectionLost'
  BY <1>15, NoneAssumption DEF ResetStatus, Goto
<1>16. ASSUME NEW c \in Calls, Quit(c) PROVE NoConnectionLost'
  BY <1>16, NoneAssumption DEF Quit
<1>17. ASSUME NEW c \in Calls, Drain(c) PROVE NoConnectionLost'
  BY <1>17, NoneAssumption DEF Drain
<1>18. ASSUME NEW c \in Calls, WorkEnds(c) PROVE NoConnectionLost'
  BY <1>18, NoneAssumption DEF WorkEnds, FnGoto, Using
<1>19. ASSUME NEW c \in Calls, Progress(c) PROVE NoConnectionLost'
  BY <1>19, NoneAssumption DEF Progress
<1>20. ASSUME NEW c \in Calls, CreateTemp(c) PROVE NoConnectionLost'
  BY <1>20, NoneAssumption DEF CreateTemp, FnGoto
<1>21. ASSUME NEW c \in Calls, RetrieveSucceeds(c) PROVE NoConnectionLost'
  BY <1>21, NoneAssumption DEF RetrieveSucceeds, FnGoto
<1>22. ASSUME NEW c \in Calls, RetrieveFails(c) PROVE NoConnectionLost'
  BY <1>22, NoneAssumption DEF RetrieveFails, FnGoto
<1>23. ASSUME NEW c \in Calls, Rename(c) PROVE NoConnectionLost'
  BY <1>23, NoneAssumption DEF Rename, FnGoto
<1>24. ASSUME NEW c \in Calls, RenameFails(c) PROVE NoConnectionLost'
  BY <1>24, NoneAssumption DEF RenameFails, FnGoto
<1>25. ASSUME NEW c \in Calls, RemoveTemp(c) PROVE NoConnectionLost'
  BY <1>25, NoneAssumption DEF RemoveTemp, FnGoto
<1>26. ASSUME NEW c \in Calls, ServeSucceeds(c) PROVE NoConnectionLost'
  BY <1>26, NoneAssumption DEF ServeSucceeds, FnGoto
<1>27. ASSUME NEW c \in Calls, ServeFails(c) PROVE NoConnectionLost'
  BY <1>27, NoneAssumption DEF ServeFails, FnGoto
<1>28. ASSUME NEW c \in Calls, ServeQuit(c) PROVE NoConnectionLost'
  BY <1>28, NoneAssumption DEF ServeQuit, FnGoto
<1>29. ASSUME NEW c \in Calls, ServeClose(c) PROVE NoConnectionLost'
  BY <1>29, NoneAssumption DEF ServeClose, FnGoto
<1>30. ASSUME NEW c \in Calls, AfterFunc(c) PROVE NoConnectionLost'
  BY <1>30, NoneAssumption DEF AfterFunc
<1>31. ASSUME NEW c \in Calls, CloseReader(c) PROVE NoConnectionLost'
  BY <1>31, NoneAssumption DEF CloseReader
<1>32. CASE UNCHANGED vars
  BY <1>32 DEF vars
<1> QED
  BY <1>1, <1>2, <1>3, <1>4, <1>5, <1>6, <1>7, <1>8, <1>9, <1>10, <1>11, <1>12, <1>13,
     <1>14, <1>15, <1>16, <1>17, <1>18, <1>19, <1>20, <1>21, <1>22, <1>23, <1>24, <1>25,
     <1>26, <1>27, <1>28, <1>29, <1>30, <1>31, <1>32
  DEF Next, GetConn, WithContext, Function, Serve

\* Every step keeps WholeInv.
LEMMA NextWhole ==
  ASSUME TypeOK, ConnInv, WholeInv, [Next]_vars
  PROVE  WholeInv'
<1> USE DEF connVars, callVars, outVars, TypeOK, WholeInv, NothingPartial
<1>1. ASSUME NEW c \in Calls, Begin(c) PROVE WholeInv'
  BY <1>1 DEF Begin, Goto
<1>2. ASSUME NEW c \in Calls, Cancel(c) PROVE WholeInv'
  BY <1>2 DEF Cancel
<1>3. ASSUME NEW c \in Calls, Lock(c) PROVE WholeInv'
  BY <1>3 DEF Lock, Goto
<1>4. ASSUME NEW c \in Calls, NoopAnswers(c) PROVE WholeInv'
  BY <1>4 DEF NoopAnswers, Goto
<1>5. ASSUME NEW c \in Calls, NoopFails(c) PROVE WholeInv'
  BY <1>5 DEF NoopFails, Goto
<1>6. ASSUME NEW c \in Calls, CloseShared(c) PROVE WholeInv'
  BY <1>6 DEF CloseShared, Return, Goto
<1>7. ASSUME NEW c \in Calls, DialFails(c) PROVE WholeInv'
  BY <1>7 DEF DialFails, Return, Goto
<1>8. ASSUME NEW c \in Calls, DialSucceeds(c) PROVE WholeInv'
  BY <1>8 DEF DialSucceeds, Goto
<1>9. ASSUME NEW c \in Calls, LoginFails(c) PROVE WholeInv'
  BY <1>9 DEF LoginFails, Return, Goto
<1>10. ASSUME NEW c \in Calls, LoginShared(c) PROVE WholeInv'
  BY <1>10 DEF LoginShared, Goto
<1>11. ASSUME NEW c \in Calls, LoginOwn(c) PROVE WholeInv'
  BY <1>11 DEF LoginOwn, Return, Goto, ConnInv, Phases, InGetConn
<1>12. ASSUME NEW c \in Calls, CheckContext(c) PROVE WholeInv'
  BY <1>12 DEF CheckContext, Return, Goto, ConnInv, Phases
<1>13. ASSUME NEW c \in Calls, FnAnswers(c) PROVE WholeInv'
  BY <1>13 DEF FnAnswers, Return, Goto
<1>14. ASSUME NEW c \in Calls, Abandon(c) PROVE WholeInv'
  BY <1>14 DEF Abandon, Return, Goto
<1>15. ASSUME NEW c \in Calls, ResetStatus(c) PROVE WholeInv'
  BY <1>15 DEF ResetStatus, Goto
<1>16. ASSUME NEW c \in Calls, Quit(c) PROVE WholeInv'
  BY <1>16 DEF Quit
<1>17. ASSUME NEW c \in Calls, Drain(c) PROVE WholeInv'
  BY <1>17 DEF Drain
<1>18. ASSUME NEW c \in Calls, WorkEnds(c) PROVE WholeInv'
  BY <1>18 DEF WorkEnds, FnGoto
<1>19. ASSUME NEW c \in Calls, Progress(c) PROVE WholeInv'
  BY <1>19 DEF Progress
<1>20. ASSUME NEW c \in Calls, CreateTemp(c) PROVE WholeInv'
  BY <1>20 DEF CreateTemp, FnGoto
<1>21. ASSUME NEW c \in Calls, RetrieveSucceeds(c) PROVE WholeInv'
  BY <1>21 DEF RetrieveSucceeds, FnGoto
<1>22. ASSUME NEW c \in Calls, RetrieveFails(c) PROVE WholeInv'
  BY <1>22 DEF RetrieveFails, FnGoto
<1>23. ASSUME NEW c \in Calls, Rename(c) PROVE WholeInv'
  BY <1>23 DEF Rename, FnGoto
<1>24. ASSUME NEW c \in Calls, RenameFails(c) PROVE WholeInv'
  BY <1>24 DEF RenameFails, FnGoto
<1>25. ASSUME NEW c \in Calls, RemoveTemp(c) PROVE WholeInv'
  BY <1>25 DEF RemoveTemp, FnGoto
<1>26. ASSUME NEW c \in Calls, ServeSucceeds(c) PROVE WholeInv'
  BY <1>26 DEF ServeSucceeds, FnGoto
<1>27. ASSUME NEW c \in Calls, ServeFails(c) PROVE WholeInv'
  BY <1>27 DEF ServeFails, FnGoto
<1>28. ASSUME NEW c \in Calls, ServeQuit(c) PROVE WholeInv'
  BY <1>28 DEF ServeQuit, FnGoto
<1>29. ASSUME NEW c \in Calls, ServeClose(c) PROVE WholeInv'
  BY <1>29 DEF ServeClose, FnGoto
<1>30. ASSUME NEW c \in Calls, AfterFunc(c) PROVE WholeInv'
  BY <1>30 DEF AfterFunc
<1>31. ASSUME NEW c \in Calls, CloseReader(c) PROVE WholeInv'
  BY <1>31 DEF CloseReader
<1>32. CASE UNCHANGED vars
  BY <1>32 DEF vars
<1> QED
  BY <1>1, <1>2, <1>3, <1>4, <1>5, <1>6, <1>7, <1>8, <1>9, <1>10, <1>11, <1>12, <1>13,
     <1>14, <1>15, <1>16, <1>17, <1>18, <1>19, <1>20, <1>21, <1>22, <1>23, <1>24, <1>25,
     <1>26, <1>27, <1>28, <1>29, <1>30, <1>31, <1>32
  DEF Next, GetConn, WithContext, Function, Serve

\* Every step keeps EofInv.
LEMMA NextEof ==
  ASSUME TypeOK, ConnInv, EofInv, [Next]_vars
  PROVE  EofInv'
<1> USE DEF connVars, callVars, outVars, TypeOK, EofInv, TruncationIsSeen
<1>1. ASSUME NEW c \in Calls, Begin(c) PROVE EofInv'
  BY <1>1 DEF Begin, Goto
<1>2. ASSUME NEW c \in Calls, Cancel(c) PROVE EofInv'
  BY <1>2 DEF Cancel
<1>3. ASSUME NEW c \in Calls, Lock(c) PROVE EofInv'
  BY <1>3 DEF Lock, Goto
<1>4. ASSUME NEW c \in Calls, NoopAnswers(c) PROVE EofInv'
  BY <1>4 DEF NoopAnswers, Goto
<1>5. ASSUME NEW c \in Calls, NoopFails(c) PROVE EofInv'
  BY <1>5 DEF NoopFails, Goto
<1>6. ASSUME NEW c \in Calls, CloseShared(c) PROVE EofInv'
  BY <1>6 DEF CloseShared, Return, Goto
<1>7. ASSUME NEW c \in Calls, DialFails(c) PROVE EofInv'
  BY <1>7 DEF DialFails, Return, Goto
<1>8. ASSUME NEW c \in Calls, DialSucceeds(c) PROVE EofInv'
  BY <1>8 DEF DialSucceeds, Goto
<1>9. ASSUME NEW c \in Calls, LoginFails(c) PROVE EofInv'
  BY <1>9 DEF LoginFails, Return, Goto
<1>10. ASSUME NEW c \in Calls, LoginShared(c) PROVE EofInv'
  BY <1>10 DEF LoginShared, Goto
<1>11. ASSUME NEW c \in Calls, LoginOwn(c) PROVE EofInv'
  BY <1>11 DEF LoginOwn, Return, Goto
<1>12. ASSUME NEW c \in Calls, CheckContext(c) PROVE EofInv'
  BY <1>12 DEF CheckContext, Return, Goto
<1>13. ASSUME NEW c \in Calls, FnAnswers(c) PROVE EofInv'
  BY <1>13 DEF FnAnswers, Return, Goto
<1>14. ASSUME NEW c \in Calls, Abandon(c) PROVE EofInv'
  BY <1>14 DEF Abandon, Return, Goto
<1>15. ASSUME NEW c \in Calls, ResetStatus(c) PROVE EofInv'
  BY <1>15 DEF ResetStatus, Goto
<1>16. ASSUME NEW c \in Calls, Quit(c) PROVE EofInv'
  BY <1>16 DEF Quit
<1>17. ASSUME NEW c \in Calls, Drain(c) PROVE EofInv'
  BY <1>17 DEF Drain
<1>18. ASSUME NEW c \in Calls, WorkEnds(c) PROVE EofInv'
  BY <1>18 DEF WorkEnds, FnGoto
<1>19. ASSUME NEW c \in Calls, Progress(c) PROVE EofInv'
  BY <1>19 DEF Progress
<1>20. ASSUME NEW c \in Calls, CreateTemp(c) PROVE EofInv'
  BY <1>20 DEF CreateTemp, FnGoto
<1>21. ASSUME NEW c \in Calls, RetrieveSucceeds(c) PROVE EofInv'
  BY <1>21 DEF RetrieveSucceeds, FnGoto
<1>22. ASSUME NEW c \in Calls, RetrieveFails(c) PROVE EofInv'
  BY <1>22 DEF RetrieveFails, FnGoto
<1>23. ASSUME NEW c \in Calls, Rename(c) PROVE EofInv'
  BY <1>23 DEF Rename, FnGoto
<1>24. ASSUME NEW c \in Calls, RenameFails(c) PROVE EofInv'
  BY <1>24 DEF RenameFails, FnGoto
<1>25. ASSUME NEW c \in Calls, RemoveTemp(c) PROVE EofInv'
  BY <1>25 DEF RemoveTemp, FnGoto
<1>26. ASSUME NEW c \in Calls, ServeSucceeds(c) PROVE EofInv'
  BY <1>26 DEF ServeSucceeds, FnGoto
<1>27. ASSUME NEW c \in Calls, ServeFails(c) PROVE EofInv'
  BY <1>27 DEF ServeFails, FnGoto
<1>28. ASSUME NEW c \in Calls, ServeQuit(c) PROVE EofInv'
  BY <1>28 DEF ServeQuit, FnGoto
<1>29. ASSUME NEW c \in Calls, ServeClose(c) PROVE EofInv'
  BY <1>29 DEF ServeClose, FnGoto
<1>30. ASSUME NEW c \in Calls, AfterFunc(c) PROVE EofInv'
  BY <1>30 DEF AfterFunc
<1>31. ASSUME NEW c \in Calls, CloseReader(c) PROVE EofInv'
  BY <1>31 DEF CloseReader
<1>32. CASE UNCHANGED vars
  BY <1>32 DEF vars
<1> QED
  BY <1>1, <1>2, <1>3, <1>4, <1>5, <1>6, <1>7, <1>8, <1>9, <1>10, <1>11, <1>12, <1>13,
     <1>14, <1>15, <1>16, <1>17, <1>18, <1>19, <1>20, <1>21, <1>22, <1>23, <1>24, <1>25,
     <1>26, <1>27, <1>28, <1>29, <1>30, <1>31, <1>32
  DEF Next, GetConn, WithContext, Function, Serve

\* Every step keeps UploadShownWhileRunning.
LEMMA NextShown ==
  ASSUME TypeOK, UploadShownWhileRunning, [Next]_vars
  PROVE  UploadShownWhileRunning'
<1> USE DEF connVars, callVars, outVars, TypeOK, UploadShownWhileRunning, Ops, NoStatus
<1>1. ASSUME NEW c \in Calls, Begin(c) PROVE UploadShownWhileRunning'
  BY <1>1 DEF Begin, Goto
<1>2. ASSUME NEW c \in Calls, Cancel(c) PROVE UploadShownWhileRunning'
  BY <1>2 DEF Cancel
<1>3. ASSUME NEW c \in Calls, Lock(c) PROVE UploadShownWhileRunning'
  BY <1>3 DEF Lock, Goto
<1>4. ASSUME NEW c \in Calls, NoopAnswers(c) PROVE UploadShownWhileRunning'
  BY <1>4 DEF NoopAnswers, Goto
<1>5. ASSUME NEW c \in Calls, NoopFails(c) PROVE UploadShownWhileRunning'
  BY <1>5 DEF NoopFails, Goto
<1>6. ASSUME NEW c \in Calls, CloseShared(c) PROVE UploadShownWhileRunning'
  BY <1>6 DEF CloseShared, Return, Goto
<1>7. ASSUME NEW c \in Calls, DialFails(c) PROVE UploadShownWhileRunning'
  BY <1>7 DEF DialFails, Return, Goto
<1>8. ASSUME NEW c \in Calls, DialSucceeds(c) PROVE UploadShownWhileRunning'
  BY <1>8 DEF DialSucceeds, Goto
<1>9. ASSUME NEW c \in Calls, LoginFails(c) PROVE UploadShownWhileRunning'
  BY <1>9 DEF LoginFails, Return, Goto
<1>10. ASSUME NEW c \in Calls, LoginShared(c) PROVE UploadShownWhileRunning'
  BY <1>10 DEF LoginShared, Goto
<1>11. ASSUME NEW c \in Calls, LoginOwn(c) PROVE UploadShownWhileRunning'
  BY <1>11 DEF LoginOwn, Return, Goto
<1>12. ASSUME NEW c \in Calls, CheckContext(c) PROVE UploadShownWhileRunning'
  BY <1>12 DEF CheckContext, Return, Goto
<1>13. ASSUME NEW c \in Calls, FnAnswers(c) PROVE UploadShownWhileRunning'
  BY <1>13 DEF FnAnswers, Return, Goto
<1>14. ASSUME NEW c \in Calls, Abandon(c) PROVE UploadShownWhileRunning'
  BY <1>14 DEF Abandon, Return, Goto
<1>15. ASSUME NEW c \in Calls, ResetStatus(c) PROVE UploadShownWhileRunning'
  BY <1>15 DEF ResetStatus, Goto
<1>16. ASSUME NEW c \in Calls, Quit(c) PROVE UploadShownWhileRunning'
  BY <1>16 DEF Quit
<1>17. ASSUME NEW c \in Calls, Drain(c) PROVE UploadShownWhileRunning'
  BY <1>17 DEF Drain
<1>18. ASSUME NEW c \in Calls, WorkEnds(c) PROVE UploadShownWhileRunning'
  BY <1>18 DEF WorkEnds, FnGoto
<1>19. ASSUME NEW c \in Calls, Progress(c) PROVE UploadShownWhileRunning'
  BY <1>19 DEF Progress
<1>20. ASSUME NEW c \in Calls, CreateTemp(c) PROVE UploadShownWhileRunning'
  BY <1>20 DEF CreateTemp, FnGoto
<1>21. ASSUME NEW c \in Calls, RetrieveSucceeds(c) PROVE UploadShownWhileRunning'
  BY <1>21 DEF RetrieveSucceeds, FnGoto
<1>22. ASSUME NEW c \in Calls, RetrieveFails(c) PROVE UploadShownWhileRunning'
  BY <1>22 DEF RetrieveFails, FnGoto
<1>23. ASSUME NEW c \in Calls, Rename(c) PROVE UploadShownWhileRunning'
  BY <1>23 DEF Rename, FnGoto
<1>24. ASSUME NEW c \in Calls, RenameFails(c) PROVE UploadShownWhileRunning'
  BY <1>24 DEF RenameFails, FnGoto
<1>25. ASSUME NEW c \in Calls, RemoveTemp(c) PROVE UploadShownWhileRunning'
  BY <1>25 DEF RemoveTemp, FnGoto
<1>26. ASSUME NEW c \in Calls, ServeSucceeds(c) PROVE UploadShownWhileRunning'
  BY <1>26 DEF ServeSucceeds, FnGoto
<1>27. ASSUME NEW c \in Calls, ServeFails(c) PROVE UploadShownWhileRunning'
  BY <1>27 DEF ServeFails, FnGoto
<1>28. ASSUME NEW c \in Calls, ServeQuit(c) PROVE UploadShownWhileRunning'
  BY <1>28 DEF ServeQuit, FnGoto
<1>29. ASSUME NEW c \in Calls, ServeClose(c) PROVE UploadShownWhileRunning'
  BY <1>29 DEF ServeClose, FnGoto
<1>30. ASSUME NEW c \in Calls, AfterFunc(c) PROVE UploadShownWhileRunning'
  BY <1>30 DEF AfterFunc
<1>31. ASSUME NEW c \in Calls, CloseReader(c) PROVE UploadShownWhileRunning'
  BY <1>31 DEF CloseReader
<1>32. CASE UNCHANGED vars
  BY <1>32 DEF vars
<1> QED
  BY <1>1, <1>2, <1>3, <1>4, <1>5, <1>6, <1>7, <1>8, <1>9, <1>10, <1>11, <1>12, <1>13,
     <1>14, <1>15, <1>16, <1>17, <1>18, <1>19, <1>20, <1>21, <1>22, <1>23, <1>24, <1>25,
     <1>26, <1>27, <1>28, <1>29, <1>30, <1>31, <1>32
  DEF Next, GetConn, WithContext, Function, Serve

-----------------------------------------------------------------------------
\* Every step keeps the types and the connection invariant.
LEMMA NextConn ==
  ASSUME TypeOK, ConnInv, [Next]_vars
  PROVE  TypeOK' /\ ConnInv'
BY NextType, NextPhases, NextOwnership, NextHolder, NextApart DEF ConnInv

\* The types and the connection invariant hold throughout.
LEMMA Connections == Spec => [](TypeOK /\ ConnInv)
<1>1. Init => TypeOK /\ ConnInv
  BY InitType, InitConn
<1>2. TypeOK /\ ConnInv /\ [Next]_vars => (TypeOK /\ ConnInv)'
  BY NextConn
<1> QED BY <1>1, <1>2, PTL DEF Spec

\* The types, and f.mu is held by exactly the call that is in the section it protects.
THEOREM TypeCorrect == Spec => []TypeOK
BY Connections, PTL

\* The connection invariant leaves one user to a connection.
LEMMA ConnGivesOneUser ==
  ASSUME TypeOK, ConnInv
  PROVE  OneUserPerConnection
<1> SUFFICES ASSUME NEW k \in Calls, NEW c \in UserOf(k), NEW d \in UserOf(k), c # d
             PROVE  FALSE
  BY DEF OneUserPerConnection
<1> USE DEF ConnInv, TypeOK
<1>1. c \in Calls /\ d \in Calls
  BY DEF UserOf
<1>2. CASE fn[k] = "serve"
  <2>1. Private(k)
    BY <1>2 DEF Phases, Ownership, Streaming
  <2>2. \A e \in UserOf(k) : e = k
    BY <1>2, <2>1 DEF UserOf, Private, Phases, Streaming, Using
  <2> QED BY <2>2
<1>3. CASE fn[k] # "serve"
  <2>1. \A e \in UserOf(k) : \/ fn[e] \in Using /\ on[e] = k
                             \/ mu = e /\ pc[e] \in {"noop", "check"} /\ client = k
    BY <1>3 DEF UserOf, Holding, InGetConn
  <2>2. \A e \in UserOf(k) : fn[e] \in Using => mu = e \/ client # k
    BY <2>1 DEF Holder, Phases, Holding, UserOf
  <2>3. \A e \in UserOf(k) : pc[e] \in {"noop", "check"} => fn[e] \notin Using
    BY DEF Phases, UserOf
  <2>4. fn[c] \notin Using \/ fn[d] \notin Using
    BY <1>1, <2>1, <2>3 DEF Apart
  <2> QED BY <2>1, <2>2, <2>4
<1> QED BY <1>2, <1>3

\* However many calls are cancelled while their function runs, no connection is ever
\* used by two calls (withContext drops f.client before it unlocks).
THEOREM OneUser == Spec => []OneUserPerConnection
BY Connections, ConnGivesOneUser, PTL

\* No connection is ever forgotten (getConn, withContext, Close, Download).
THEOREM ConnectionsAreClosed == Spec => []NoConnectionLost
<1>1. Init => NoConnectionLost
  BY DEF Init, NoConnectionLost
<1>2. TypeOK /\ ConnInv /\ NoConnectionLost /\ [Next]_vars => NoConnectionLost'
  BY NextLost
<1> QED BY <1>1, <1>2, Connections, PTL DEF Spec

\* The local file is never replaced by a part of a file, and every temporary file
\* is renamed or removed by the function that made it (writeFileAtomically).
THEOREM DownloadsAreAtomic == Spec => []NothingPartial
<1>1. Init => WholeInv
  BY DEF Init, WholeInv, NothingPartial
<1>2. TypeOK /\ ConnInv /\ WholeInv /\ [Next]_vars => WholeInv'
  BY NextWhole
<1>3. WholeInv => NothingPartial
  BY DEF WholeInv
<1> QED BY <1>1, <1>2, <1>3, Connections, PTL DEF Spec

\* The end of a streamed file is its end (Download).
THEOREM EndMeansWhole == Spec => []TruncationIsSeen
<1>1. Init => EofInv
  BY DEF Init, EofInv, TruncationIsSeen
<1>2. TypeOK /\ ConnInv /\ EofInv /\ [Next]_vars => EofInv'
  BY NextEof
<1>3. EofInv => TruncationIsSeen
  BY DEF EofInv
<1> QED BY <1>1, <1>2, <1>3, Connections, PTL DEF Spec

\* No upload is shown after every upload handler has returned (handleAPIUpload).
THEOREM ShownWhileRunning == Spec => []UploadShownWhileRunning
<1>1. Init => UploadShownWhileRunning
  BY DEF Init, UploadShownWhileRunning, NoStatus
<1>2. TypeOK /\ UploadShownWhileRunning /\ [Next]_vars => UploadShownWhileRunning'
  BY NextShown
<1> QED BY <1>1, <1>2, TypeCorrect, PTL DEF Spec

=============================================================================

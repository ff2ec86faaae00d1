--------------------------- MODULE MCCoapProtocol ---------------------------
EXTENDS CoapProtocol, TLC

(* Messages of the application (a) and of the peers (p), by their kind.     *)
CONSTANTS p1, p2, aPut, aPut2, aPut3, pPut, pPut2, pNon, pPing, aBig, aEven, aGet, aNote, pBig, pGet

mSender == [m \in Messages |-> CASE m \in {aPut, aPut2, aPut3, aBig, aEven, aGet, aNote} -> None
                                 [] m \in {pPut2} -> p2 [] OTHER -> p1]
mReceiver == [m \in Messages |-> CASE m \in {aPut, aPut3, aBig, aEven, aGet, aNote} -> p1
                                   [] m = aPut2 -> p2 [] OTHER -> None]
mKind == [m \in Messages |-> CASE m \in {aGet, pGet} -> "get" [] m = aNote -> "notify"
                               [] m = pNon -> "non" [] m = pPing -> "ping" [] OTHER -> "put"]
mLength == [m \in Messages |-> CASE m \in {aBig, pGet} -> 3 [] m \in {aEven, aNote, aGet} -> 2
                                 [] m = pBig -> 3 [] m = pPing -> 0 [] OTHER -> 1]

Scenario(ms, records, noMemory) ==
  [messages |-> ms, internal |-> FALSE, dupSize |-> records, noMemory |-> noMemory]

mScenarios ==
  {Scenario(ms, 1, {}) : ms \in {{aPut, aPut2, aPut3}, {aPut, pPut, pPut2}, {aPut, pNon, pPing}}}
  \cup {Scenario(ms, 4, {}) : ms \in {{aBig, pGet}, {aEven, pPut}, {aGet}, {aNote}, {pBig, aPut}}}
  \cup {Scenario({pPut, aPut}, 4, {"record", "reply", "resend"}),
        Scenario({pBig}, 4, {"payload", "reply"}),
        [Scenario({aGet}, 4, {"resend"}) EXCEPT !.internal = TRUE]}

mRepeated == {Scenario({pBig}, 4, {})}
=============================================================================

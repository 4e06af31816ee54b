----------------------------- MODULE MCCtaAsync -----------------------------
EXTENDS CtaAsync

CONSTANTS bar, far, sb0, sb1

MCAddrs == {bar, far}
MCWindow == {bar}
MCScoreboards == {sb0, sb1}
MCRawWord == [InitWord(1) EXCEPT !.arrive = 0, !.tx = 1]
MCInitWords == {ZeroWord, InitWord(0), InitWord(2), MCRawWord}
MCStored == {InitWord(2), MCRawWord}
MCOperands == {0, 1, 2}
MCBytes == {1, 2}
=============================================================================

------------------------------ MODULE MCCspMenus -------------------------------
(* What programs are made of in the runs of CspSchedule.                    *)
EXTENDS Csp

LOCAL op(name, r, x, y) == [NOP EXCEPT !.op = name, !.r = r, !.x = x, !.y = y]

MCMenu == { [op("mac", direct(4), direct(4), immediate) EXCEPT !.a_source = "result"],
            op("sel", direct(5), direct(4), direct(0)),
            op("abs", indexed("i", 1), indexed("j", 0), direct(0)) }

MCIndexes == { [op("idx", immediate, immediate, direct(0)) EXCEPT !.which = "i", !.imm = 8],
               [op("idx", immediate, direct(5), direct(0)) EXCEPT !.which = "j"] }

MCCarried == [i |-> 8, j |-> 16]

MCLoops == { [op |-> "loop", which |-> "i", count |-> 2, imm |-> 2],
             [op |-> "loop", which |-> "j", count |-> 2, imm |-> 3],
             [op |-> "loop", which |-> "i", count |-> 0, imm |-> 2],
             [op |-> "vloop", which |-> "i", count |-> 2, imm |-> 2],
             [op |-> "vloop", which |-> "i", count |-> 8, imm |-> 2],
             [op |-> "vloop", which |-> "i", count |-> 5, imm |-> 2] }

================================================================================

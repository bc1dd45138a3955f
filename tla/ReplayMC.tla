------------------------------ MODULE ReplayMC ------------------------------
(***************************************************************************)
(* A session with no take, and one whose takes have messages that arrived  *)
(* together, others far apart, a torn last line, nothing at all, and a gap *)
(* in their numbers.                                                       *)
(***************************************************************************)
EXTENDS Replay

Accel == <<"stick", "accel">>
Gyro  == <<"stick", "gyro">>
Bare  == <<"stick">>

At(t, address) == [t |-> t, address |-> address]

MCSessions ==
    {<<>>,
     <<[number |-> 1, lines |-> <<At(7, Accel), At(7, Gyro), At(9, Accel), At(12, Bare)>>],
       [number |-> 2, lines |-> <<>>],
       [number |-> 4, lines |-> <<At(3, Gyro), At(5, Accel), Torn>>]>>}

MCSelectors ==
    {[all |-> TRUE, pieces |-> <<>>]}
        \cup [all : {FALSE}, pieces : {<<<<4, 4>>, <<1, 1>>>>, <<<<2, 7>>>>, <<<<1, 2>>, <<>>>>, <<<<3, 3>>>>}]

MCOptions ==
    {o \in [target : BOOLEAN, rate : {0, 1, 2}, loop : BOOLEAN, prefix : {None, <<"dut">>},
            globs : {{}, {{Accel}}, {{Gyro}, {Bare}}}, mark : BOOLEAN, reset : BOOLEAN] :
        /\ o.mark = o.reset \/ (o.rate = 1 /\ ~ o.loop)
        /\ o.target \/ o.rate = 1}
=============================================================================

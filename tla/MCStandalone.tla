---------------------------- MODULE MCStandalone -----------------------------
EXTENDS Standalone, TLC

\* Every tag the tools look at, with signed, unsigned and wide maxima, End Collection with
\* its stray byte, and a long item that holds the bytes of two short ones.
Words ==
    { Item(Report_Size, 1, 12), Item(Report_ID, 1, 1), Item(Report_ID, 1, 2), Item(Push, 0, 0), Item(Pop, 0, 0),
      Item(Input, 1, 6), Item(Input, 1, 2), Item(Logical_Minimum, 1, 0), Item(Logical_Maximum, 2, 2047),
      Item(Logical_Maximum, 1, 255), Item(End_Collection, 1, 0),
      Item(LONG_ITEM, 2, <<193, 129>>) }

\* A case that fits both paths, one past its report[] before one that fits, and one below
\* the keyboards' floor before one at it.
Lengths == { <<2>>, <<4, 3>>, <<1, 2>> }
MinLens == [mouse |-> 0, kbd |-> 2]

WheelDeltas == { -3, 0, 3 }

\* ControlSuite only compares payloads with one another.
Alike == Permutations(Payloads)

Start == << Item(Report_Size, 1, 3), Item(Report_Count, 1, 3) >>
==============================================================================

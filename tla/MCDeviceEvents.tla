---------------------------- MODULE MCDeviceEvents ----------------------------
(* Instances of DeviceEvents for TLC. *)
EXTENDS DeviceEvents

Checked(bytes) == Append(bytes, checksum(bytes))
SetupFor(columns, rows, options) == Checked(<<17, 0, 1, columns, rows, options>>)

\* RESET in both its forms, displays of 2 characters (basic), of 5 times 7
\* (full ASCII, more than a request carries), of none and of an unknown character
\* set, a cash sale, and one whose price is the reserved amount.
MachineBytes == {
    <<16>>, Checked(<<16>>),
    SetupFor(2, 1, 0), SetupFor(5, 7, 9), SetupFor(0, 7, 1), SetupFor(2, 1, 5),
    Checked(<<20, 1>>), Checked(<<20, 0>>),
    Checked(<<19, 5, 1, 44, 0, 1>>), Checked(<<19, 5, 255, 255, 0, 1>>)}

\* "A1", "a", "é" and a text longer than the small display.
SomeTexts == {<<65, 49>>, <<97>>, <<233>>, <<65, 66, 67>>}

ThreeByOne == Available(3, 1, 0)
=============================================================================

----------------------------- MODULE MCConsole ------------------------------
(* An instance of Console: a screen of 2 rows of 3 columns, words of 8 bits. *)
EXTENDS Console

\* Address 1 holds "bc"; address 9 is not mapped.
MCStr == 1 :> <<"b", "c">>

MCMessages ==
    {[fmt |-> <<"h", "\n">>, args |-> <<>>],
     [fmt |-> <<"%d">>, args |-> <<128>>],
     [fmt |-> <<"%d", "%x">>, args |-> <<10, 255>>],
     [fmt |-> <<"%l", "%s">>, args |-> <<18, 0, 1>>],
     [fmt |-> <<"%s", "%%", "%?">>, args |-> <<0>>],
     [fmt |-> <<"a", "%s">>, args |-> <<9>>],
     [fmt |-> <<"h", "%">>, args |-> <<>>],
     [fmt |-> NullFmt, args |-> <<>>]}

MCKey == [fmt |-> <<"%s">>, args |-> <<1>>]
=============================================================================

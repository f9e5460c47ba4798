----------------------------- MODULE MCHttpLoad -----------------------------
(***************************************************************************)
(* A small instance of HttpLoad for TLC: two slots, and responses that are *)
(* cut inside the name of a field, inside an end of line, behind the       *)
(* header and inside the body.                                             *)
(***************************************************************************)
EXTENDS HttpLoad

MCResponses == <<
    \* A length; the end of the header is cut.
    [ending |-> <<"CR", "LF">>,
     pieces |-> << <<"x", " ", "2", "0", "CR", "LF">> \o SubSeq(Name, 1, 3),
                   SubSeq(Name, 4, 15) \o <<" ", "2", "CR", "LF", "CR">>,
                   <<"LF", "x">>, <<"x">> >>],
    \* Names that begin alike, no blank before the number, and two lengths.
    [ending |-> <<"LF">>,
     pieces |-> << <<"x", " ", "1", "LF">> \o Name \o <<"2", "LF", "c", "o", "x", "LF">>,
                   Name \o <<" ", " ", "1", "LF">> \o Name \o <<" ", "1", "0", "LF", "LF">>,
                   <<"LF", "c">> >>],
    \* An empty body; what follows it looks like a header.
    [ending |-> <<"CR">>,
     pieces |-> << <<"x", "CR">> \o Name \o <<" ", "0", "CR", "CR">>, Name >>]
    >>

Mode(start, throttle, slots, fetches, failures) ==
    [start |-> start, throttle |-> throttle, slots |-> slots, fetches |-> fetches,
     failures |-> failures]

MCModes ==
    {Mode("parallel", TRUE, 2, 2, {"socket", "write"}),
     Mode("parallel", FALSE, 1, 3, {"socket", "write"}),
     Mode("rate", FALSE, 2, 2, {"socket", "write"}),
     Mode("jitter", FALSE, 2, 2, {})}

=============================================================================

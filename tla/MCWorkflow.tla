----------------------------- MODULE MCWorkflow -----------------------------
(* A URL (it may be given twice: one name for two) and one without a base  *)
(* name; every URL of up to three marks on its own.                        *)
EXTENDS Workflow

MCUrls     == {<<"h", "/", "a", ".", "z">>, <<"/">>}
MCOdd      == {"a", "/", ".", " ", "?", "CON", "%2F", "%2E"}
MCOddUrls  == UNION {[1..n -> MCOdd] : n \in 1..3}
MCMarks    == MCOdd \cup {"_", "download", "dat", "video", "_full", "h", "z", "f", "t0", "t1"}
                    \cup VideoExts
MCOutNames == {<<"f">>, <<"f", ".", "z">>}
MCNumbers  == {0, 9}
MCStamps   == <<"t0", "t1">>
MCEarlier  == {{}, {<<"f">>, <<"f", ".", "z">>}, {<<"f", "_full", ".mp4">>},
               {<<"a", "_", "t1", ".", "z">>, <<"f", "_", "t0", ".", "z">>}}
=============================================================================

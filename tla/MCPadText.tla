----------------------------- MODULE MCPadText -----------------------------
EXTENDS PadText

\* Contents that XNote never writes: an unclosed tag, a tag nobody knows, a closing
\* without an opening, escapes that escape nothing, an older note with the escape
\* character in it.
OldContents ==
    {<<TAG, "bold", TAG, Other>>,
     <<TAG, "bold", TAG, Other, TAG, "bold", TAG, ESC>>,
     <<TAG, Other, TAG, PH, TAG, Slash, "bold", TAG>>,
     <<TAG, "bold", Other>>,
     <<ESC, Other>>, <<ESC, PH>>, <<PH, TAG>>}
=============================================================================

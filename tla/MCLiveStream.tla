---------------------------- MODULE MCLiveStream ----------------------------
EXTENDS LiveStream

\* A credential, and a number that a marker and white space interrupt; a chunk
\* may cut either anywhere.
MCTexts ==
    {<<Key, Space, Letter, Space, Letter, Letter>>, <<Digit, Open, Close, Space, Digit>>}

ASSUME MCTextsAreWorded == WordedTexts

=============================================================================

SPECIFICATION PicturesSpec
INVARIANTS ClearedUndrawn
\* The machine is switched off in the end.
CHECK_DEADLOCK FALSE

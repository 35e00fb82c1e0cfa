--------------------------- MODULE MCSecureVector ---------------------------
\* One element value besides zero, which is enough as no call looks at the values; storages of
\* at most four elements: the capacities 1, 2 and 4 of push_back and everything resize and
\* reserve may ask for.
EXTENDS SecureVector

MCValues == 0 .. 1
=============================================================================

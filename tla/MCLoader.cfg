\* Two libraries whose callbacks and guest code call the loader again; and
\* providers of two names, from the host and from libc++.
SPECIFICATION LoaderSpec
CONSTANTS
    Modules = {libcxx, game}
    MaxDepth = 5
    Names = {malloc, memcpy}
    Addresses = {host, guest}
    Priorities = {50, 100}
    MaxTable = 2
    MaxAccepted = 5
INVARIANTS
    TypeOK InUseIsAlive GuestIsUndisturbed
    RegistryTypeOK BestOffer
PROPERTIES
    TouchedIsNotPublished SealedIsNotWritten EntriesOnlyRise
CHECK_DEADLOCK FALSE

\* A device on the master and two on the slave, and two kinds of guests.
SPECIFICATION Spec
CONSTANTS
    Width = 3
    DeviceLines <- MCLines
    ReadSelects = {FALSE}
    Guests <- MCGuests
INVARIANTS NothingForgotten SendsHighest
PROPERTIES AckNests

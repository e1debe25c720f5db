SPECIFICATION Spec
CONSTANTS
    Tasks = {1, 2}
    BootKeys = {"char", "alt_fn", "ctrl_c"}
INVARIANT
    PcbExists

\* Four expiries: the first arming and one after each of three resets.
CONSTANTS
    Handlers = {h1, h2, h3, h4}
    Owner = Owner
    Nobody = Nobody
    MaxResets = 3
SPECIFICATION Spec
INVARIANT SettledOnce
PROPERTY TaskSettles

CONSTANTS
  Items = {i1, i2}
  Passwords = {weak, strong}
  Weak = {weak}
  Jobs = {j1, j2}
  Null = Null
SPECIFICATION ScreenSpec
SYMMETRY Symmetry
INVARIANT ScreenTypeOK
INVARIANT ListIsTheVault
INVARIANT SecretIsTheViewed
